---- MODULE Spec2Model ----
(***************************************************************************)
(* A model of the HTTPS-intercepting proxy of wechat-article-analyzer      *)
(* (electron/services/proxyServer.ts).                                     *)
(*                                                                         *)
(* Strings and byte buffers are strings; includes(), split(), parseInt()   *)
(* and the chunked decoder are computed on their characters, as the code   *)
(* computes them.                                                          *)
(***************************************************************************)
EXTENDS Integers, Sequences, FiniteSets, TLC

\* ------------------------------------------------------------------------
\* Bounds of the lifecycle model
\* ------------------------------------------------------------------------
\* startProxyServer calls in one behaviour
MaxStarts == 2
\* stopProxyServer calls in one behaviour
MaxStops == 2
\* client connections open at once
MaxConns == 1
\* bytes of a buffer that is chunk-encoded and decoded again
MaxBody == 4
\* bytes of an arbitrary buffer handed to the chunked decoder
MaxRaw == 4
\* bytes of the one long chunk (a chunk-size line of two hex digits)
LongChunk == 16

\* ------------------------------------------------------------------------
\* Strings
\* ------------------------------------------------------------------------
\* String.prototype.includes
Includes(s, sub) ==
  \E i \in 0..(Len(s) - Len(sub)) : SubSeq(s, i + 1, i + Len(sub)) = sub

\* the character at position k (from 1) of a string
At(s, k) == SubSeq(s, k, k)

Max(a, b) == IF a >= b THEN a ELSE b
Min(a, b) == IF a <= b THEN a ELSE b

\* white space and line terminators, as String.prototype.trim strips them
IsSpace(c) == c \in {" ", "\t", "\n", "\r", "\f"}

RECURSIVE TrimStart(_)
TrimStart(s) ==
  IF Len(s) > 0 /\ IsSpace(At(s, 1)) THEN TrimStart(Tail(s)) ELSE s

RECURSIVE TrimEnd(_)
TrimEnd(s) ==
  IF Len(s) > 0 /\ IsSpace(At(s, Len(s)))
    THEN TrimEnd(SubSeq(s, 1, Len(s) - 1)) ELSE s

\* String.prototype.trim
Trim(s) == TrimEnd(TrimStart(s))

\* the target domain tested by handleHttpsConnect and
\* checkAndExtractCompleteCookie
WechatDomain == "mp.weixin.qq.com"

\* the hostnames and CONNECT authorities of the lifecycle model
ConnectHosts == {"mp.weixin.qq.com", "x.mp.weixin.qq.com", "a.com"}
ConnectUrls == ConnectHosts \cup {h \o ":443" : h \in ConnectHosts}

isWechatDomainAlways(host) == TRUE
isWechatDomain(host) == Includes(host, WechatDomain)

\* ------------------------------------------------------------------------
\* State of the proxy module and of the node objects it creates
\* ------------------------------------------------------------------------
VARIABLES
  server,      \* module variable `server`: 0 is null, i is the http.Server
               \* created by the i-th startProxyServer call
  isClosing,   \* module variable `isClosing`
  caCert,      \* module variables caCert / caKey ("" until a CA was loaded)
  certCache,   \* module constant certCache: the hostnames that have an entry
  starts,      \* one record per startProxyServer call: its promise and the
               \* http.Server it created
  stops,       \* one record per stopProxyServer call: its promise and timer
  arg,         \* the argument of the function under study, with what the
               \* claim compares its result to
  ret,         \* what the function returned
  conn,        \* the sockets of one CONNECT connection and what went over
               \* them
  capturedArticles,  \* module variable capturedArticles
  capturedNickname,  \* module variable capturedNickname
  articlesFound,     \* the calls of config.onArticlesFound, in order
  osProxy,           \* the registry values ProxyEnable and ProxyServer
  originalProxySettings,  \* main.ts module variable originalProxySettings
  handler,           \* the monitoring handler of main.ts that is running:
                     \* its position, and what it has called so far
  suspended,         \* a second invocation of the auto-start handler: the
                     \* one that waits at an await while `handler` runs
  caFiles,           \* the files ca-key.pem and ca-cert.pem
  http,              \* one plain-HTTP request through handleHttpRequest
  leafMints          \* per hostname, the calls of generateServerCertificate
                     \* since a listener was last bound, and whether
                     \* stopProxyServer was called since then

lifeVars == <<server, isClosing, caCert, certCache, starts, stops>>
capVars == <<capturedArticles, capturedNickname, articlesFound>>
\* all but the lifecycle state, all but the connection and the lifecycle
\* state, all but the call under study
mainVars == <<osProxy, originalProxySettings, handler, suspended>>
appVars == <<mainVars, caFiles, http, leafMints>>
\* all but the lifecycle state and the count of minted certificates
lifeRest == <<arg, ret, conn, capVars, mainVars, caFiles, http>>
fnVars == <<arg, ret, conn, capVars, appVars>>
relayRest == <<arg, ret, capVars, appVars>>
callRest == <<lifeVars, conn, capVars, appVars>>
vars == <<lifeVars, fnVars>>

NULL == 0

\* the connection before its CONNECT request was handled
NoConn ==
  [phase |-> "none", url |-> "", head |-> "", sent |-> "", clientBuf |-> "",
   upstreamGot |-> "", upstreamSent |-> "", upstreamBuf |-> "",
   clientGot |-> "", mints |-> 0, extractions |-> 0, parses |-> 0,
   forwards |-> <<>>, tlsGot |-> <<>>, tlsEnded |-> FALSE, errors |-> <<>>]

\* lines 25-26: nothing captured
CapInit ==
  /\ capturedArticles = <<>>
  /\ capturedNickname = ""
  /\ articlesFound = <<>>

\* no monitoring handler is running; `runs` counts the invocations so far,
\* `result` is what the last one returned
NoSettings == [enabled |-> FALSE, server |-> ""]
\* the value null of originalProxySettings
NoSettingsKept == [null |-> TRUE]
Idle(runs, result) ==
  [name |-> "idle", pc |-> "", calls |-> <<>>, before |-> NoSettings,
   captured |-> FALSE, remembered |-> FALSE, result |-> result,
   runs |-> runs]

\* neither ca-key.pem nor ca-cert.pem exists
NoCAFiles ==
  [key |-> [exists |-> FALSE, pem |-> <<>>],
   cert |-> [exists |-> FALSE, pem |-> <<>>]]

\* no HTTP request has arrived
NoRequest ==
  [phase |-> "none", headersSent |-> FALSE, status |-> 0, body |-> "",
   ended |-> FALSE, thrown |-> <<>>, found |-> <<>>]

\* main.ts line 741, no CA files, no request
\* no leaf certificate was generated
NoMints == [count |-> [h \in ConnectHosts |-> 0], stopCalled |-> FALSE]

AppInit ==
  /\ leafMints = NoMints
  /\ osProxy = NoSettings
  /\ originalProxySettings = NoSettingsKept
  /\ handler = Idle(0, "none")
  /\ suspended = Idle(0, "none")
  /\ caFiles = NoCAFiles
  /\ http = NoRequest

NoArg == [kind |-> "none"]
NoCall == [called |-> FALSE]

LifeInit ==
  /\ server = NULL
  /\ isClosing = FALSE
  /\ caCert = ""
  /\ certCache = {}
  /\ starts = <<>>
  /\ stops = <<>>

Init ==
  /\ LifeInit
  /\ arg = NoArg
  /\ ret = NoCall
  /\ conn = NoConn
  /\ CapInit
  /\ AppInit

isProxyRunning == server # NULL

\* the listeners of the proxy that are bound to 127.0.0.1:PROXY_PORT
Bound == {i \in DOMAIN starts : starts[i].phase = "bound"}

\* ------------------------------------------------------------------------
\* startProxyServer
\* ------------------------------------------------------------------------
\* A call record: the promise (status, err) and the http.Server created.
\*   phase    "binding": listen() requested, the listen handle not bound yet
\*            "bound":   the listen handle is bound (the server listens)
\*            "unbound": the listen handle was closed, or never came to exist
\*   conns    the sockets the server still counts as open
\*   cbs      stopProxyServer calls whose close callback is registered
\*   closeDue a 'close' event of the server is scheduled
NewServer ==
  [status |-> "pending", err |-> "", phase |-> "binding", conns |-> 0,
   cbs |-> {}, closeDue |-> FALSE]

Rejected(why) ==
  [status |-> "rejected", err |-> why, phase |-> "none", conns |-> 0,
   cbs |-> {}, closeDue |-> FALSE]

\* `if (server)`: an instance already exists
AlreadyRunningNever == FALSE
AlreadyRunning == server # NULL

\* `server` after generateCACertificate() threw at line 64: the assignment
\* of line 68 was not reached
caFailureServerCreated == Len(starts) + 1
caFailureServer == server

\* lines 56-60: isClosing after a rejected call; `isClosing = false` (line
\* 60) comes after the `return reject(...)` of line 57
rejectedClosingReset == FALSE
rejectedClosing == isClosing

\* startProxyServer(config): the promise executor, up to server.listen() and
\* the registration of the 'error' handler. caOk: generateCACertificate()
\* returned (it throws when the certificate files cannot be read or written).
startProxyServer(caOk) ==
  /\ Len(starts) < MaxStarts
  /\ UNCHANGED <<certCache, stops>>
  /\ IF AlreadyRunning
       THEN /\ starts' = Append(starts, Rejected("already running"))
            /\ isClosing' = rejectedClosing
            /\ UNCHANGED <<server, caCert>>
       ELSE IF ~caOk
         THEN /\ isClosing' = FALSE
              /\ starts' = Append(starts, Rejected("ca"))
              /\ server' = caFailureServer
              /\ UNCHANGED caCert
         ELSE /\ isClosing' = FALSE
              /\ caCert' = "CA"
              /\ server' = Len(starts) + 1
              /\ starts' = Append(starts, NewServer)

\* A callback queued with process.nextTick is pending: the bind of a listen()
\* in progress, or the 'close' event of a server. Node runs these before it
\* handles any socket or timer event.
TickPending ==
  \E i \in DOMAIN starts : starts[i].phase = "binding" \/ starts[i].closeDue

\* promise settle: resolve() and reject() of a settled promise do nothing
Settle(status, err, to, why) ==
  IF status = "pending" THEN <<to, why>> ELSE <<status, err>>

\* the operating system binds 127.0.0.1:PROXY_PORT to one listener at a time
PortFree == Bound = {}

\* server.listen's callback: the listen handle is bound, 'listening' fires
onListening(i) ==
  /\ starts[i].phase = "binding"
  /\ PortFree
  /\ LET st == Settle(starts[i].status, starts[i].err, "resolved", "")
     IN starts' = [starts EXCEPT ![i].phase = "bound",
                                 ![i].status = st[1], ![i].err = st[2]]
  /\ UNCHANGED <<server, isClosing, caCert, certCache, stops>>

\* what the 'error' handler assigns to the module variable `server`
onErrorServerKeep(i) == server
onErrorServer(i) == NULL

\* server.on('error'): the handler stays registered for the server's life.
\* A bind failure (EADDRINUSE) leaves the server without a listen handle; an
\* error of a listening server (a failed accept) leaves it listening.
onError(i) ==
  /\ starts[i].phase \in {"binding", "bound"}
  /\ starts[i].phase = "bound" => ~TickPending
  /\ LET bind == starts[i].phase = "binding"
         st == Settle(starts[i].status, starts[i].err, "rejected",
                      IF bind THEN "bind" ELSE "server")
     IN starts' = [starts EXCEPT ![i].phase = IF bind THEN "unbound" ELSE @,
                                 ![i].status = st[1], ![i].err = st[2]]
  /\ server' = onErrorServer(i)
  /\ UNCHANGED <<isClosing, caCert, certCache, stops>>

\* ------------------------------------------------------------------------
\* stopProxyServer
\* ------------------------------------------------------------------------
\* A call record: the promise and the timer of setTimeout(..., 3000).
\*   timer  "none" | "armed" | "cleared" | "fired"
IdleStopPending == [status |-> "pending", timer |-> "none"]
IdleStop == [status |-> "resolved", timer |-> "none"]
RunningStopNoTimer == [status |-> "pending", timer |-> "none"]
RunningStop == [status |-> "pending", timer |-> "armed"]

\* `isClosing = false` of the branch taken when no server is running
IdleStopClosingKept == isClosing
IdleStopClosing == FALSE

\* net.Server.close(cb) on server i, for the stopProxyServer call c: the listen
\* handle, if any, is closed at once; cb is registered for 'close', which is
\* scheduled as soon as the server has no handle and no open socket.
\* cancelled: a listen() still in progress is abandoned by close() (releases
\* of node differ in this).
serverClose(i, c, cancelled) ==
  [starts EXCEPT
     ![i].phase = IF @ = "bound" \/ (@ = "binding" /\ cancelled)
                    THEN "unbound" ELSE @,
     ![i].cbs = @ \cup {c},
     ![i].closeDue = @ \/ starts[i].conns = 0]

stopProxyServer(cancelled) ==
  /\ Len(stops) < MaxStops
  /\ UNCHANGED caCert
  /\ IF server = NULL
       THEN /\ isClosing' = IdleStopClosing
            /\ stops' = Append(stops, IdleStop)
            /\ UNCHANGED <<server, certCache, starts>>
       ELSE /\ isClosing' = TRUE
            /\ stops' = Append(stops, RunningStop)
            /\ certCache' = {}
            /\ starts' = serverClose(server, Len(stops) + 1, cancelled)
            /\ UNCHANGED server

\* the cache after the close callback has run (the callback does not touch it)
closeCallbackCacheCleared == {}
closeCallbackCache == certCache

\* the 'close' event of server i: every registered close callback runs
\* (clearTimeout, server = null, isClosing = false, resolve)
onClose(i) ==
  /\ starts[i].closeDue
  /\ starts' = [starts EXCEPT ![i].closeDue = FALSE, ![i].cbs = {}]
  /\ IF starts[i].cbs = {}
       THEN UNCHANGED <<server, isClosing, certCache, stops>>
       ELSE /\ server' = NULL
            /\ isClosing' = FALSE
            /\ certCache' = closeCallbackCache
            /\ stops' = [c \in DOMAIN stops |->
                 IF c \in starts[i].cbs
                   THEN [status |-> "resolved",
                         timer |-> IF stops[c].timer = "armed"
                                     THEN "cleared" ELSE stops[c].timer]
                   ELSE stops[c]]
  /\ UNCHANGED caCert

\* the 3000 ms timer of the stopProxyServer call c fires
onStopTimeout(c) ==
  /\ stops[c].timer = "armed"
  /\ ~TickPending
  /\ server' = NULL
  /\ certCache' = {}
  /\ isClosing' = FALSE
  /\ stops' = [stops EXCEPT ![c] = [status |-> "resolved", timer |-> "fired"]]
  /\ UNCHANGED <<caCert, starts>>

\* ------------------------------------------------------------------------
\* Connections of a server and the CONNECT handler
\* ------------------------------------------------------------------------
RECURSIVE SumConns(_)
SumConns(n) == IF n = 0 THEN 0 ELSE starts[n].conns + SumConns(n - 1)
OpenConns == SumConns(Len(starts))

\* the listening server accepts a client connection
accept(i) ==
  /\ starts[i].phase = "bound"
  /\ ~TickPending
  /\ OpenConns < MaxConns
  /\ starts' = [starts EXCEPT ![i].conns = @ + 1]
  /\ UNCHANGED <<server, isClosing, caCert, certCache, stops>>

\* a socket of server i closes; the last one of a server without a listen
\* handle schedules the 'close' event
socketClose(i) ==
  /\ starts[i].conns > 0
  /\ ~TickPending
  /\ starts' = [starts EXCEPT
       ![i].conns = @ - 1,
       ![i].closeDue = @ \/ (starts[i].conns = 1 /\ starts[i].phase # "bound")]
  /\ UNCHANGED <<server, isClosing, caCert, certCache, stops>>

\* String.prototype.split on a one-character separator
RECURSIVE Split(_, _)
Split(s, sep) ==
  IF \E k \in 1..Len(s) : At(s, k) = sep
    THEN LET k == CHOOSE k \in 1..Len(s) :
                    At(s, k) = sep /\ \A j \in 1..(k - 1) : At(s, j) # sep
         IN <<SubSeq(s, 1, k - 1)>> \o Split(SubSeq(s, k + 1, Len(s)), sep)
    ELSE <<s>>

\* parseHostPort(url).host: `const [host, portStr] = url.split(':')`
parseHost(url) == Split(url, ":")[1]

\* handleHttpsConnect, lines 157-163: the cached certificate of the host, or
\* a new one from generateServerCertificate that is put into the cache
MaxMints == 2

mustMintAlways(host) == TRUE
mustMint(host) == host \notin certCache

\* handleHttpsConnect on a connection of server i, as far as the module state
\* goes (the sockets of one connection are the subject of the relay model)
handleHttpsConnect(i, url) ==
  /\ starts[i].conns > 0
  /\ ~TickPending
  /\ LET host == parseHost(url)
     IN IF ~isWechatDomain(host)
          THEN UNCHANGED <<certCache, leafMints>>
          ELSE IF mustMint(host)
            THEN /\ leafMints.count[host] < MaxMints
                 /\ leafMints' = [leafMints EXCEPT !.count[host] = @ + 1]
                 /\ certCache' = certCache \cup {host}
            ELSE UNCHANGED <<certCache, leafMints>>
  /\ UNCHANGED <<server, isClosing, caCert, starts, stops>>

\* ------------------------------------------------------------------------
\* The lifecycle specification
\* ------------------------------------------------------------------------
StartProxyServer ==
  (\E caOk \in BOOLEAN : startProxyServer(caOk)) /\ UNCHANGED fnVars
StopProxyServer ==
  /\ \E cancelled \in BOOLEAN : stopProxyServer(cancelled)
  /\ leafMints' = [leafMints EXCEPT !.stopCalled = TRUE]
  /\ UNCHANGED lifeRest
Listening ==
  /\ \E i \in DOMAIN starts : onListening(i)
  /\ leafMints' = NoMints
  /\ UNCHANGED lifeRest
ServerError == (\E i \in DOMAIN starts : onError(i)) /\ UNCHANGED fnVars
ServerClose == (\E i \in DOMAIN starts : onClose(i)) /\ UNCHANGED fnVars
StopTimeout == (\E c \in DOMAIN stops : onStopTimeout(c)) /\ UNCHANGED fnVars
Accept == (\E i \in DOMAIN starts : accept(i)) /\ UNCHANGED fnVars
SocketClose == (\E i \in DOMAIN starts : socketClose(i)) /\ UNCHANGED fnVars
ConnectRequest ==
  /\ \E i \in DOMAIN starts, url \in ConnectUrls : handleHttpsConnect(i, url)
  /\ UNCHANGED lifeRest

Next ==
  \/ StartProxyServer
  \/ StopProxyServer
  \/ Listening
  \/ ServerError
  \/ ServerClose
  \/ StopTimeout
  \/ Accept
  \/ SocketClose
  \/ ConnectRequest

Spec == Init /\ [][Next]_vars

\* the outcome of a listen() that cannot bind: 'error' with EADDRINUSE
BindFailure ==
  /\ \E i \in DOMAIN starts : starts[i].phase = "binding" /\ onError(i)
  /\ UNCHANGED fnVars

\* callbacks queued with process.nextTick run, and timers of the event loop
\* fire
LiveSpec ==
  /\ Spec
  /\ WF_vars(Listening \/ BindFailure \/ ServerClose)
  /\ \A c \in 1..MaxStops :
       WF_vars(c \in DOMAIN stops /\ onStopTimeout(c) /\ UNCHANGED fnVars)

\* ------------------------------------------------------------------------
\* Claims about the lifecycle
\* ------------------------------------------------------------------------
\* a step in which startProxyServer is called
StartStep == Len(starts') = Len(starts) + 1
\* a step in which stopProxyServer is called
StopStep == Len(stops') = Len(stops) + 1

\* C1: a startProxyServer call made while the server handle exists is
\* rejected as already running, creates no server and leaves the handle, and
\* at most one listener of the proxy is bound at any time.
C1_SingleInstance ==
  /\ [](Cardinality(Bound) <= 1)
  /\ [][(StartStep /\ server # NULL) =>
          /\ starts'[Len(starts')].status = "rejected"
          /\ starts'[Len(starts')].err = "already running"
          /\ starts'[Len(starts')].phase = "none"
          /\ server' = server]_vars

\* a second start was rejected while the first server is listening
C1_Witness ==
  \E i \in DOMAIN starts :
    /\ starts[i].err = "already running"
    /\ Bound # {}
    /\ server \in Bound

\* C2: the promise of startProxyServer resolves only in the step in which the
\* listener becomes bound; a failed bind rejects it with the bind error and
\* leaves isProxyRunning() false, and a call is rejected as already running
\* only when the handle exists (so not right after that rejection).
C2_ResolveAfterBound ==
  [][/\ \A i \in DOMAIN starts :
          /\ (starts[i].status = "pending" /\ starts'[i].status = "resolved")
               => (starts[i].phase = "binding" /\ starts'[i].phase = "bound")
          /\ (starts[i].phase = "binding" /\ starts'[i].phase = "unbound"
                /\ ~StopStep)
               => /\ starts'[i].status = "rejected"
                  /\ starts'[i].err = "bind"
                  /\ ~isProxyRunning'
     /\ (StartStep /\ starts'[Len(starts')].err = "already running")
          => isProxyRunning]_vars

\* a bind failure was followed by a start that succeeded
C2_Witness ==
  \E i, j \in DOMAIN starts :
    /\ i < j
    /\ starts[i].err = "bind"
    /\ starts[j].status = "resolved"
    /\ starts[j].phase = "bound"

\* C3: stopProxyServer called with no server running resolves in the call,
\* leaves the handle null and the closing flag false and changes nothing
\* else, so that a repeated call finds and leaves the same state.
C3_IdleStop ==
  [][(StopStep /\ server = NULL) =>
       /\ stops'[Len(stops')].status = "resolved"
       /\ server' = NULL
       /\ isClosing' = FALSE
       /\ UNCHANGED <<caCert, certCache, starts>>
       /\ SubSeq(stops', 1, Len(stops)) = stops]_vars

\* two calls in a row found no server running
C3_Witness ==
  \E c \in DOMAIN stops :
    /\ c + 1 \in DOMAIN stops
    /\ stops[c].timer = "none"
    /\ stops[c + 1].timer = "none"
    /\ server = NULL
    /\ ~isClosing

\* C4: every stopProxyServer call resolves, by the close callback or by its
\* timer, and never rejects; in the step that resolves it the handle is null.
C4_StopResolves ==
  /\ \A c \in 1..MaxStops :
       (c \in DOMAIN stops) ~> (c \in DOMAIN stops /\ stops[c].status = "resolved")
  /\ [](\A c \in DOMAIN stops : stops[c].status \in {"pending", "resolved"})
  /\ [][\A c \in DOMAIN stops' :
          ((c \notin DOMAIN stops \/ stops[c].status = "pending")
             /\ stops'[c].status = "resolved")
            => /\ ~isProxyRunning'
               /\ stops'[c].timer \in {"none", "cleared", "fired"}]_vars

\* a stop resolved by its timer while a connection of the server stayed open
C4_Witness ==
  \E c \in DOMAIN stops, i \in DOMAIN starts :
    /\ stops[c].timer = "fired"
    /\ c \in starts[i].cbs
    /\ starts[i].conns > 0

\* no startProxyServer or stopProxyServer call is pending
Quiescent ==
  /\ \A i \in DOMAIN starts : starts[i].status # "pending"
  /\ \A c \in DOMAIN stops : stops[c].status # "pending"

\* C5: with no call pending, isProxyRunning() is true exactly when a
\* listener created by startProxyServer is bound.
C5_RunningIffBound == Quiescent => (isProxyRunning <=> Bound # {})

\* C6: when a stopProxyServer call resolves, the certificate cache is empty.
C6_CacheEmptyAfterStop ==
  [][\A c \in DOMAIN stops' :
       ((c \notin DOMAIN stops \/ stops[c].status = "pending")
          /\ stops'[c].status = "resolved")
         => certCache' = {}]_vars

\* ------------------------------------------------------------------------
\* extractChunkedBody
\* ------------------------------------------------------------------------
HexLower == "0123456789abcdef"
HexUpper == "0123456789ABCDEF"

IsHex(c) == \E k \in 1..16 : At(HexLower, k) = c \/ At(HexUpper, k) = c
HexVal(c) == (CHOOSE k \in 1..16 : At(HexLower, k) = c \/ At(HexUpper, k) = c) - 1

\* the value of a string of hexadecimal digits
RECURSIVE HexNum(_)
HexNum(s) ==
  IF s = "" THEN 0
  ELSE 16 * HexNum(SubSeq(s, 1, Len(s) - 1)) + HexVal(At(s, Len(s)))

\* the longest prefix of s made of hexadecimal digits
RECURSIVE HexPrefix(_)
HexPrefix(s) ==
  IF Len(s) > 0 /\ IsHex(At(s, 1))
    THEN At(s, 1) \o HexPrefix(Tail(s)) ELSE ""

\* parseInt(s, 16): white space, a sign, an optional 0x, then the longest
\* run of hexadecimal digits; NaN when there is none
parseInt16(str) ==
  LET s1 == TrimStart(str)
      signed == Len(s1) > 0 /\ At(s1, 1) \in {"-", "+"}
      s2 == IF signed THEN Tail(s1) ELSE s1
      s3 == IF Len(s2) >= 2 /\ SubSeq(s2, 1, 2) \in {"0x", "0X"}
              THEN SubSeq(s2, 3, Len(s2)) ELSE s2
      digits == HexPrefix(s3)
      sign == IF signed /\ At(s1, 1) = "-" THEN -1 ELSE 1
  IN [nan |-> digits = "", val |-> sign * HexNum(digits)]

\* Buffer.prototype.slice(start, end): negative indices count from the end,
\* indices are clamped to the buffer
BufSlice(b, start, end) ==
  LET n == Len(b)
      s0 == IF start < 0 THEN Max(n + start, 0) ELSE Min(start, n)
      e0 == IF end < 0 THEN Max(n + end, 0) ELSE Min(end, n)
  IN IF s0 >= e0 THEN "" ELSE SubSeq(b, s0 + 1, e0)

\* the for loop of lines 301-307: the first CR LF at or after offset, or -1
lineEndFrom(b, offset) ==
  LET found == {i \in Max(offset, 0)..(Len(b) - 2) :
                  At(b, i + 1) = "\r" /\ At(b, i + 2) = "\n"}
  IN IF found = {} THEN -1
     ELSE CHOOSE i \in found : \A j \in found : i <= j

\* what the call yields: the buffer returned, and the offsets of the loop
\* iterations in order. The next offset is a function of the offset alone,
\* so the loop never exits once an offset comes back: returns is FALSE.
Returned(body, offsets) ==
  [called |-> TRUE, returns |-> TRUE, body |-> body, offsets |-> offsets]
Diverged(body, offsets) ==
  [called |-> TRUE, returns |-> FALSE, body |-> body, offsets |-> offsets]

\* the while loop of extractChunkedBody, from `offset` with `chunks` decoded
RECURSIVE chunkLoop(_, _, _, _)
chunkLoop(chunkedBody, offset, chunks, offsets) ==
  IF ~(offset < Len(chunkedBody)) THEN Returned(chunks, offsets)
  ELSE IF \E k \in 1..Len(offsets) : offsets[k] = offset
    THEN Diverged(chunks, Append(offsets, offset))
  ELSE
    LET lineEnd == lineEndFrom(chunkedBody, offset)
        sizeLine == Trim(BufSlice(chunkedBody, offset, lineEnd))
        chunkSize == parseInt16(sizeLine)
        chunkStart == lineEnd + 2
        chunkEnd == chunkStart + chunkSize.val
        seen == Append(offsets, offset)
    IN IF lineEnd = -1 THEN Returned(chunks, seen)
       ELSE IF chunkSize.nan \/ chunkSize.val = 0 THEN Returned(chunks, seen)
       ELSE IF chunkEnd > Len(chunkedBody) THEN Returned(chunks, seen)
       ELSE chunkLoop(chunkedBody, chunkEnd + 2,
                      chunks \o BufSlice(chunkedBody, chunkStart, chunkEnd),
                      seen)

extractChunkedBody(chunkedBody) == chunkLoop(chunkedBody, 0, "", <<>>)

\* ------------------------------------------------------------------------
\* The chunked-decoding specification: one call of extractChunkedBody
\* ------------------------------------------------------------------------
\* the strings of at most n characters over an alphabet
RECURSIVE Strings(_, _)
Strings(alphabet, n) ==
  IF n = 0 THEN {""}
  ELSE LET shorter == Strings(alphabet, n - 1)
       IN shorter \cup {p \o c : p \in shorter, c \in alphabet}

\* the ways to cut n bytes into non-empty chunks: sequences of chunk lengths
RECURSIVE Splits(_)
Splits(n) ==
  IF n = 0 THEN {<<>>}
  ELSE UNION {{<<k>> \o r : r \in Splits(n - k)} : k \in 1..n}

\* a number below 256 in hexadecimal, as a chunk-size line carries it
ToHex(n) ==
  IF n < 16 THEN At(HexLower, n + 1)
  ELSE At(HexLower, (n \div 16) + 1) \o At(HexLower, (n % 16) + 1)

\* HTTP/1.1 chunked framing of a buffer cut into chunks of the given lengths
RECURSIVE EncodeChunked(_, _)
EncodeChunked(buf, split) ==
  IF split = <<>> THEN "0\r\n\r\n"
  ELSE ToHex(split[1]) \o "\r\n" \o SubSeq(buf, 1, split[1]) \o "\r\n"
         \o EncodeChunked(SubSeq(buf, split[1] + 1, Len(buf)), Tail(split))

\* the chunks of the framing whose data lies within its first k bytes
RECURSIVE CompleteChunks(_, _, _)
CompleteChunks(buf, split, k) ==
  IF split = <<>> THEN ""
  ELSE LET dataEnd == Len(ToHex(split[1])) + 2 + split[1]
       IN IF dataEnd > k THEN ""
          ELSE SubSeq(buf, 1, split[1])
                 \o CompleteChunks(SubSeq(buf, split[1] + 1, Len(buf)),
                                   Tail(split), k - dataEnd - 2)

\* bytes of the buffers: the framing characters themselves
BodyBytes == {"0", "\r", "\n"}
\* bytes of the arbitrary inputs
RawBytes == {"-", "6", "1", "a", "\r", "\n"}

RECURSIVE Repeat(_, _)
Repeat(c, n) == IF n = 0 THEN "" ELSE c \o Repeat(c, n - 1)

\* the buffers of at most maxBody framing bytes, and one long chunk
Bodies(maxBody) ==
  Strings(BodyBytes, maxBody) \cup {Repeat("a", LongChunk)}

SplitsOf(buf) ==
  IF Len(buf) <= MaxBody THEN Splits(Len(buf))
  ELSE {<<Len(buf)>>, <<Len(buf) - 1, 1>>}

\* the inputs: framings of the buffers, their truncations, arbitrary bytes
ChunkArgs(maxBody, maxRaw) ==
  UNION {
    {[kind |-> "encoded", body |-> EncodeChunked(buf, split), expect |-> buf]
       : split \in SplitsOf(buf)} : buf \in Bodies(maxBody)}
  \cup UNION {UNION {
    {[kind |-> "truncated",
      body |-> SubSeq(EncodeChunked(buf, split), 1, k),
      expect |-> CompleteChunks(buf, split, k)]
       : k \in 0..(Len(EncodeChunked(buf, split)) - 1)}
       : split \in SplitsOf(buf)} : buf \in Bodies(maxBody)}
  \cup {[kind |-> "raw", body |-> raw, expect |-> ""]
          : raw \in Strings(RawBytes, maxRaw)}

ChunkInit ==
  /\ LifeInit
  /\ arg \in ChunkArgs(MaxBody, MaxRaw)
  /\ ret = NoCall
  /\ conn = NoConn
  /\ CapInit
  /\ AppInit

ExtractChunkedBody ==
  /\ arg.kind \in {"encoded", "truncated", "raw"}
  /\ ~ret.called
  /\ ret' = extractChunkedBody(arg.body)
  /\ UNCHANGED <<arg, callRest>>

ChunkNext == ExtractChunkedBody

ChunkSpec == ChunkInit /\ [][ChunkNext]_vars

\* C10: decoding the chunked framing of a buffer returns the buffer, for
\* every way of cutting it into chunks; decoding a framing that was cut
\* short returns the chunks that are complete in it; and on every input,
\* well-formed or not, the call returns.
C10_ChunkedRoundTrip ==
  ret.called =>
    /\ ret.returns
    /\ arg.kind \in {"encoded", "truncated"} => ret.body = arg.expect

\* the part of C10 that the code satisfies: round trip and truncation
ChunkedRoundTripOnFramings ==
  (ret.called /\ arg.kind \in {"encoded", "truncated"}) =>
    (ret.returns /\ ret.body = arg.expect)

\* ------------------------------------------------------------------------
\* checkAndExtractCompleteCookie
\* ------------------------------------------------------------------------
\* String.prototype.indexOf of a character: from 0, or -1
IndexOf(s, c) ==
  IF \E k \in 1..Len(s) : At(s, k) = c
    THEN (CHOOSE k \in 1..Len(s) :
            At(s, k) = c /\ \A j \in 1..(k - 1) : At(s, j) # c) - 1
    ELSE -1

\* String.prototype.substring(from) and substring(0, to)
From(s, from) == SubSeq(s, from + 1, Len(s))
Upto(s, to) == SubSeq(s, 1, to)

\* A Record<string, string> whose property names are not integers: the
\* pairs <<name, value>> in insertion order.
Has(m, k) == \E i \in 1..Len(m) : m[i][1] = k
\* m[k], with "" for undefined (both are falsy where the code tests them)
Get(m, k) == IF Has(m, k) THEN m[CHOOSE i \in 1..Len(m) : m[i][1] = k][2] ELSE ""
\* m[k] = v
Put(m, k, v) ==
  IF Has(m, k)
    THEN [i \in 1..Len(m) |-> IF m[i][1] = k THEN <<k, v>> ELSE m[i]]
    ELSE Append(m, <<k, v>>)

\* the body of the for loop of parseCookieString for one pair
cookiePair(cookies, pair) ==
  LET idx == IndexOf(pair, "=")
      key == Trim(Upto(pair, idx))
      value == Trim(From(pair, idx + 1))
  IN IF idx > 0 /\ key # "" /\ value # "" THEN Put(cookies, key, value)
     ELSE cookies

RECURSIVE cookiePairs(_, _)
cookiePairs(cookies, pairs) ==
  IF pairs = <<>> THEN cookies
  ELSE cookiePairs(
         IF Trim(Head(pairs)) = "" THEN cookies
         ELSE cookiePair(cookies, Trim(Head(pairs))),
         Tail(pairs))

\* parseCookieString(cookieStr)
parseCookieString(cookieStr) == cookiePairs(<<>>, Split(cookieStr, ";"))

\* the character of a byte given by two hexadecimal digits: the escapes of
\* the bytes that are neither letters nor digits, then the letters A to F
ByteChar(hi, lo) ==
  LET code == 16 * HexVal(hi) + HexVal(lo)
  IN CASE code = 32 -> " "
       [] code = 37 -> "%"
       [] code = 38 -> "&"
       [] code = 43 -> "+"
       [] code = 47 -> "/"
       [] code = 59 -> ";"
       [] code = 61 -> "="
       [] code >= 65 /\ code <= 70 -> At("ABCDEF", code - 64)
       [] OTHER -> "?"

\* a well-formed percent escape starts at position k of s
EscapeAt(s, k) ==
  /\ At(s, k) = "%"
  /\ k + 2 <= Len(s)
  /\ IsHex(At(s, k + 1))
  /\ IsHex(At(s, k + 2))

\* percent-decoding of the URL standard: a malformed escape is kept as it is
RECURSIVE percentDecode(_)
percentDecode(s) ==
  IF s = "" THEN ""
  ELSE IF EscapeAt(s, 1)
    THEN ByteChar(At(s, 2), At(s, 3)) \o percentDecode(From(s, 3))
    ELSE At(s, 1) \o percentDecode(Tail(s))

RECURSIVE plusToSpace(_)
plusToSpace(s) ==
  IF s = "" THEN ""
  ELSE (IF At(s, 1) = "+" THEN " " ELSE At(s, 1)) \o plusToSpace(Tail(s))

\* decodeURIComponent(s): throws URIError on a malformed escape
RECURSIVE decodeURIComponent(_)
decodeURIComponent(s) ==
  IF s = "" THEN [throws |-> FALSE, val |-> ""]
  ELSE IF At(s, 1) # "%"
    THEN LET rest == decodeURIComponent(Tail(s))
         IN [throws |-> rest.throws, val |-> At(s, 1) \o rest.val]
  ELSE IF ~EscapeAt(s, 1) THEN [throws |-> TRUE, val |-> ""]
  ELSE LET rest == decodeURIComponent(From(s, 3))
       IN [throws |-> rest.throws,
           val |-> ByteChar(At(s, 2), At(s, 3)) \o rest.val]

\* the part of s before the first occurrence of the character c
Before(s, c) == IF IndexOf(s, c) = -1 THEN s ELSE Upto(s, IndexOf(s, c))

\* new URL(requestPath, base) with the base https://host: whether it throws, and the query.
\* A request path is in origin form (/path?query), in absolute form
\* (http://authority/path?query) or starts with // (an authority follows);
\* the URL is invalid when that authority is empty.
newURL(requestPath, host) ==
  LET noFragment == Before(requestPath, "#")
      q == IndexOf(noFragment, "?")
      query == IF q = -1 THEN "" ELSE From(noFragment, q + 1)
      target == IF q = -1 THEN noFragment ELSE Upto(noFragment, q)
      afterScheme ==
        IF Len(target) >= 5 /\ Upto(target, 5) = "http:" THEN From(target, 5)
        ELSE IF Len(target) >= 6 /\ Upto(target, 6) = "https:"
          THEN From(target, 6)
        ELSE target
      hasAuthority == Len(afterScheme) >= 2 /\ Upto(afterScheme, 2) = "//"
      authority == Before(From(afterScheme, 2), "/")
  IN [throws |-> hasAuthority /\ authority = "", query |-> query]

\* URLSearchParams.get(name): the value of the first pair of that name, or
\* null (found is FALSE)
RECURSIVE searchParamsGet(_, _)
searchParamsGet(pairs, name) ==
  IF pairs = <<>> THEN [found |-> FALSE, val |-> ""]
  ELSE LET pair == Head(pairs)
           eq == IndexOf(pair, "=")
           n == percentDecode(plusToSpace(IF eq = -1 THEN pair ELSE Upto(pair, eq)))
           v == percentDecode(plusToSpace(IF eq = -1 THEN "" ELSE From(pair, eq + 1)))
       IN IF pair # "" /\ n = name THEN [found |-> TRUE, val |-> v]
          ELSE searchParamsGet(Tail(pairs), name)

paramsGet(query, name) == searchParamsGet(Split(query, "&"), name)

\* Array.prototype.join
RECURSIVE Join(_, _)
Join(parts, sep) ==
  IF parts = <<>> THEN ""
  ELSE IF Len(parts) = 1 THEN parts[1]
  ELSE parts[1] \o sep \o Join(Tail(parts), sep)

\* lines 522-525: the entries with a value, each as name=value
RECURSIVE entryStrings(_)
entryStrings(cookies) ==
  IF cookies = <<>> THEN <<>>
  ELSE (IF Head(cookies)[2] # ""
          THEN <<Head(cookies)[1] \o "=" \o Head(cookies)[2]>> ELSE <<>>)
         \o entryStrings(Tail(cookies))

completeCookie(cookies) == Join(entryStrings(cookies), "; ")

\* the marker of the requests that carry the credentials in their URL
GetmsgMarker == "action=getmsg"

\* what a call did: the arguments onCookieFound was invoked with, in order
Found(strings) == [called |-> TRUE, found |-> strings]

\* lines 519-520: the merged cookies hold a critical field
hasCriticalBoth(cookies) == Get(cookies, "key") # "" /\ Get(cookies, "appmsg_token") # ""
hasCritical(cookies) == Get(cookies, "key") # "" \/ Get(cookies, "appmsg_token") # ""

\* lines 508-517: the URL parameters are put into the cookies; uin and
\* appmsg_token are decoded once more on the way
mergeCookieWins(cookies, uin, key, appmsgToken) == 
  LET c1 == IF uin # "" /\ ~Has(cookies, "uin")
              THEN Put(cookies, "uin", decodeURIComponent(uin).val) ELSE cookies
      c2 == IF key # "" /\ ~Has(cookies, "key") THEN Put(c1, "key", key) ELSE c1
  IN IF appmsgToken # "" /\ ~Has(cookies, "appmsg_token")
       THEN Put(c2, "appmsg_token", decodeURIComponent(appmsgToken).val)
       ELSE c2
merge(cookies, uin, key, appmsgToken) ==
  LET c1 == IF uin # ""
              THEN Put(cookies, "uin", decodeURIComponent(uin).val) ELSE cookies
      c2 == IF key # "" THEN Put(c1, "key", key) ELSE c1
  IN IF appmsgToken # ""
       THEN Put(c2, "appmsg_token", decodeURIComponent(appmsgToken).val)
       ELSE c2

checkAndExtractCompleteCookie(requestPath, cookieHeader, host) ==
  IF cookieHeader = "" \/ ~Includes(host, WechatDomain) THEN Found(<<>>)
  ELSE IF ~Includes(requestPath, GetmsgMarker) THEN Found(<<>>)
  ELSE
    LET url == newURL(requestPath, host)
        uin == paramsGet(url.query, "uin").val
        key == paramsGet(url.query, "key").val
        appmsgToken == paramsGet(url.query, "appmsg_token").val
        cookies == merge(parseCookieString(cookieHeader), uin, key, appmsgToken)
        threw ==
          \/ url.throws
          \/ (uin # "" /\ decodeURIComponent(uin).throws)
          \/ (appmsgToken # "" /\ decodeURIComponent(appmsgToken).throws)
    IN IF threw THEN Found(<<>>)
       ELSE IF hasCritical(cookies) THEN Found(<<completeCookie(cookies)>>)
       ELSE Found(<<>>)

\* ------------------------------------------------------------------------
\* The requests checkAndExtractCompleteCookie is called with
\* ------------------------------------------------------------------------
\* request targets: origin form, absolute form, and an empty authority
PathPrefixes ==
  {"/mp/profile_ext?", "http://mp.weixin.qq.com/mp/profile_ext?", "//?"}

ActionParams == {"action=getmsg", "action=home"}

\* the uin, key and appmsg_token parameters of the query, as sent: absent,
\* plain, empty, escaped once, escaped twice, and an escaped percent sign
UinParams == {"", "&uin=U1", "&uin=%2541", "&uin=%25"}
KeyParams == {"", "&key=K1", "&key=", "&key=K%3D"}
TokenParams ==
  {"", "&appmsg_token=T1", "&appmsg_token=T%252B", "&appmsg_token=%25z"}

RequestPaths ==
  {p \o a \o u \o k \o t :
     p \in PathPrefixes, a \in ActionParams, u \in UinParams,
     k \in KeyParams, t \in TokenParams}

\* Cookie headers: none, other fields only, fields of the same names as the
\* URL parameters, fragments without a name or a value, a value holding =
CookieHeaders ==
  {"", "pass_ticket=P1", "key=CK; pass_ticket=P1",
   "uin=CU;appmsg_token=CT; b; c=; =x", "wap_sid2=W==; uin = CU "}

RequestHosts == {"mp.weixin.qq.com", "mp.weixin.qq.com:443", "a.com"}

CookieArgs ==
  {[kind |-> "request", requestPath |-> p, cookieHeader |-> c, host |-> h] :
     p \in RequestPaths, c \in CookieHeaders, h \in RequestHosts}

CookieInit ==
  /\ LifeInit
  /\ arg \in CookieArgs
  /\ ret = NoCall
  /\ conn = NoConn
  /\ CapInit
  /\ AppInit

CheckAndExtractCompleteCookie ==
  /\ arg.kind = "request"
  /\ ~ret.called
  /\ ret' = checkAndExtractCompleteCookie(arg.requestPath, arg.cookieHeader,
                                          arg.host)
  /\ UNCHANGED <<arg, callRest>>

CookieNext == CheckAndExtractCompleteCookie

CookieSpec == CookieInit /\ [][CookieNext]_vars

\* the value the URL of the request gives a parameter ("" when it gives none)
UrlValue(name) == paramsGet(newURL(arg.requestPath, arg.host).query, name).val

\* the fields of the Cookie header of the request
CookieFields == parseCookieString(arg.cookieHeader)

\* the names the URL of the request gives a value to
UrlSupplied == {n \in {"uin", "key", "appmsg_token"} : UrlValue(n) # ""}

\* the cookie fields the URL does not replace are in the emitted string
OtherFieldsKept ==
  \A i \in 1..Len(CookieFields) :
    CookieFields[i][1] \notin UrlSupplied =>
      Includes(ret.found[1], CookieFields[i][1] \o "=" \o CookieFields[i][2])

\* C8 (as amended): a credential string that is emitted holds key with the
\* value the URL gives it, and uin and appmsg_token with the value the URL
\* gives them decoded once more by decodeURIComponent, whenever the URL
\* gives them a non-empty value and whatever the Cookie header says for
\* these names; every other field of the Cookie header is kept with its
\* cookie value.
C8_UrlOverridesCookie ==
  (ret.called /\ ret.found # <<>>) =>
    /\ \A n \in UrlSupplied :
         Includes(ret.found[1],
                  n \o "=" \o (IF n = "key" THEN UrlValue(n)
                               ELSE decodeURIComponent(UrlValue(n)).val))
    /\ OtherFieldsKept

\* C8 (as stated): a credential string that is emitted holds uin, key and
\* appmsg_token with the values the URL gives them, overriding the Cookie
\* header, and every other cookie field with its cookie value.
C8_UrlValuesVerbatim ==
  (ret.called /\ ret.found # <<>>) =>
    /\ \A n \in UrlSupplied : Includes(ret.found[1], n \o "=" \o UrlValue(n))
    /\ OtherFieldsKept

\* a credential string was emitted for a request whose URL gives uin a value
\* that decodes once more, whose Cookie header has another uin, and whose
\* Cookie header has a field the URL does not name
C8_Witness ==
  /\ ret.called
  /\ ret.found # <<>>
  /\ UrlValue("uin") = "%41"
  /\ Get(CookieFields, "uin") = "CU"
  /\ Has(CookieFields, "wap_sid2")
  /\ Includes(ret.found[1], "wap_sid2=W==; uin=A")
  /\ ~Includes(ret.found[1], "CU")

\* the URL of the request parses and its uin and appmsg_token decode
Decodable ==
  /\ ~newURL(arg.requestPath, arg.host).throws
  /\ ~decodeURIComponent(UrlValue("uin")).throws
  /\ ~decodeURIComponent(UrlValue("appmsg_token")).throws

\* the Cookie header and the URL together hold key or appmsg_token
MergedHasCritical ==
  \/ {"key", "appmsg_token"} \cap UrlSupplied # {}
  \/ Has(CookieFields, "key")
  \/ Has(CookieFields, "appmsg_token")

\* C9 (as amended): onCookieFound is invoked exactly once for a request when
\* the request has a non-empty Cookie header, its host contains
\* mp.weixin.qq.com, its path contains action=getmsg, its URL parses and
\* its uin and appmsg_token decode, and the Cookie header and the URL
\* together hold key or appmsg_token; otherwise it is not invoked.
C9_FoundIff ==
  ret.called =>
    Len(ret.found) =
      (IF /\ arg.cookieHeader # ""
          /\ Includes(arg.host, WechatDomain)
          /\ Includes(arg.requestPath, GetmsgMarker)
          /\ Decodable
          /\ MergedHasCritical
        THEN 1 ELSE 0)

\* C9 (as stated): onCookieFound is invoked exactly once for a request when
\* its host is the target host, its path contains action=getmsg, and the
\* Cookie header and the URL together hold key or appmsg_token; otherwise
\* it is not invoked.
C9_FoundIffHostMarkerCritical ==
  ret.called =>
    Len(ret.found) =
      (IF /\ Includes(arg.host, WechatDomain)
          /\ Includes(arg.requestPath, GetmsgMarker)
          /\ MergedHasCritical
        THEN 1 ELSE 0)

\* onCookieFound was invoked once for a request whose only critical field is
\* the key of its URL
C9_Witness ==
  /\ ret.called
  /\ Len(ret.found) = 1
  /\ UrlSupplied = {"key"}
  /\ ~Has(CookieFields, "key")
  /\ ~Has(CookieFields, "appmsg_token")
  /\ arg.cookieHeader # ""

\* ------------------------------------------------------------------------
\* One CONNECT connection: the tunnel path and the intercept path
\* ------------------------------------------------------------------------
MaxSent == 2
MaxChunks == 2
MaxReplies == 2

\* the response the proxy writes to the client of a CONNECT
Established == "HTTP/1.1 200 Connection Established\r\n\r\n"

\* the bytes of the relay model, and the head argument of the 'connect' event
\* (what the client sent in the packet of its CONNECT request, after it)
RelayBytes == {"a", "b"}
Heads == {"", "h"}

\* an 'error' event of a socket of the connection: the socket, and whether
\* a listener of the proxy took it; an 'error' event without a listener is
\* thrown as an uncaught exception
ErrorEvent(socket, handled) == [socket |-> socket, handled |-> handled]

\* a proxy that runs: startProxyServer resolved, a client is connected, and
\* earlier connections may have left certificates in the cache
RelayInit ==
  /\ server = 1
  /\ isClosing = FALSE
  /\ caCert = "CA"
  /\ certCache \in SUBSET {h \in ConnectHosts : Includes(h, WechatDomain)}
  /\ starts = <<[NewServer EXCEPT !.status = "resolved", !.phase = "bound",
                                  !.conns = 1]>>
  /\ stops = <<>>
  /\ arg = NoArg
  /\ ret = NoCall
  /\ conn = NoConn
  /\ CapInit
  /\ AppInit

\* handleHttpsConnect(req, clientSocket, head, config) on the connection.
\* Phases of the connection:
\*   "connecting": tunnelConnection called net.connect, no outcome yet
\*   "tunnel":     the connect callback of tunnelConnection ran
\*   "intercept":  the client socket is wrapped in a TLSSocket
\*   "ended":      clientSocket.end() was called by an error handler
connectHandler(url, head) ==
  LET host == parseHost(url)
  IN /\ conn.phase = "none"
     /\ IF ~isWechatDomain(host)
          THEN /\ conn' = [conn EXCEPT !.phase = "connecting", !.url = url,
                                       !.head = head]
               /\ UNCHANGED certCache
          ELSE /\ conn' = [conn EXCEPT
                    !.phase = "intercept", !.url = url, !.head = head,
                    !.mints = IF mustMint(host) THEN 1 ELSE 0,
                    !.clientGot = Established]
               /\ certCache' = certCache \cup {host}
     /\ UNCHANGED <<server, isClosing, caCert, starts, stops>>

\* the client sends a byte over a tunnelled connection; it waits in the
\* client socket until a pipe reads it
clientSend(b) ==
  /\ conn.phase \in {"connecting", "tunnel"}
  /\ Len(conn.sent) < MaxSent
  /\ conn' = [conn EXCEPT !.sent = @ \o b, !.clientBuf = @ \o b]
  /\ UNCHANGED lifeVars

\* what the connect callback of tunnelConnection writes to the upstream
headWrittenNever(head) == ""
headWritten(head) == head

\* tunnelConnection, lines 450-455: the callback of net.connect
tunnelConnected ==
  /\ conn.phase = "connecting"
  /\ conn' = [conn EXCEPT !.phase = "tunnel",
                          !.clientGot = @ \o Established,
                          !.upstreamGot = @ \o headWritten(conn.head)]
  /\ UNCHANGED lifeVars

\* clientSocket.pipe(serverSocket) moves the bytes that wait, in order
pipeToUpstream(k) ==
  /\ conn.phase = "tunnel"
  /\ k <= Len(conn.clientBuf)
  /\ conn' = [conn EXCEPT !.upstreamGot = @ \o SubSeq(conn.clientBuf, 1, k),
                          !.clientBuf = SubSeq(@, k + 1, Len(@))]
  /\ UNCHANGED lifeVars

\* the upstream sends a byte over its connection
upstreamSend(b) ==
  /\ conn.phase = "tunnel"
  /\ Len(conn.upstreamSent) < MaxSent
  /\ conn' = [conn EXCEPT !.upstreamSent = @ \o b, !.upstreamBuf = @ \o b]
  /\ UNCHANGED lifeVars

\* serverSocket.pipe(clientSocket) moves the bytes that wait, in order
pipeToClient(k) ==
  /\ conn.phase = "tunnel"
  /\ k <= Len(conn.upstreamBuf)
  /\ conn' = [conn EXCEPT !.clientGot = @ \o SubSeq(conn.upstreamBuf, 1, k),
                          !.upstreamBuf = SubSeq(@, k + 1, Len(@))]
  /\ UNCHANGED lifeVars

\* tunnelConnection, lines 457-468: the 'error' handler of the upstream
\* socket ends the client socket
tunnelError ==
  /\ conn.phase \in {"connecting", "tunnel"}
  /\ conn' = [conn EXCEPT !.phase = "ended",
                          !.errors = Append(@, ErrorEvent("upstream", TRUE))]
  /\ UNCHANGED lifeVars

\* ------------------------------------------------------------------------
\* parseAndStoreArticles and the captured records
\* ------------------------------------------------------------------------
MaxResponses == 3

\* An ArticleData record, as far as the proxy looks at it: its url.
\* A message of general_msg_list.list: whether it has app_msg_ext_info, the
\* content_url of it, and the content_urls of its multi_app_msg_item_list.
Msg(url, multi) == [info |-> TRUE, url |-> url, multi |-> multi]
NoInfoMsg == [info |-> FALSE, url |-> "", multi |-> <<>>]

\* lines 397-423: the records of one message, then of the whole list
msgArticles(msg) == IF msg.info THEN <<msg.url>> \o msg.multi ELSE <<>>

RECURSIVE newArticlesOf(_)
newArticlesOf(list) ==
  IF list = <<>> THEN <<>>
  ELSE msgArticles(Head(list)) \o newArticlesOf(Tail(list))

\* Array.prototype.filter with the predicate of line 428
RECURSIVE withoutUrls(_, _)
withoutUrls(articles, urls) ==
  IF articles = <<>> THEN <<>>
  ELSE (IF Head(articles) \in urls THEN <<>> ELSE <<Head(articles)>>)
         \o withoutUrls(Tail(articles), urls)

\* the urls of a list of records
UrlsOf(articles) == {articles[i] : i \in 1..Len(articles)}

\* lines 427-428: the new records whose url is not captured yet
uniqueNewArticlesAll(newArticles) == newArticles
uniqueNewArticles(newArticles) ==
  withoutUrls(newArticles, UrlsOf(capturedArticles))

\* line 429: capturedArticles.push(...uniqueNewArticles)
pushFront(list, items) == items \o list
push(list, items) == list \o items

\* A captured response, by what lines 334-394 make of it:
\*   kind "noHeader":  no CR LF CR LF in it
\*        "gzipFail":  gunzipSync throws
\*        "jsonFail":  JSON.parse of the body throws
\*        "json":      the body parses; ret, nickname, and general_msg_list
\*                     (listOk: it parses and has an iterable list)
\*        "gzipChunked": the header names gzip and chunked encoding, and
\*                     `body` is what follows the header; what
\*                     extractChunkedBody returns for the bodies taken here
\*                     is no gzip stream, so gunzipSync throws
Response(kind, retCode, nickname, listOk, list) ==
  [kind |-> kind, ret |-> retCode, nickname |-> nickname, listOk |-> listOk,
   list |-> list, body |-> ""]
ChunkedGzip(body) ==
  [Response("gzipChunked", 0, "", FALSE, <<>>) EXCEPT !.body = body]

\* lines 357-362: whether the call of extractChunkedBody, and with it
\* parseAndStoreArticles, returns
parseReturns(response) ==
  response.kind = "gzipChunked" => extractChunkedBody(response.body).returns

\* lines 388-391: `if (data.nickname && !capturedNickname)`
nicknameLatest(response) ==
  IF response.nickname # "" THEN response.nickname ELSE capturedNickname
nicknameAfter(response) ==
  IF response.nickname # "" /\ capturedNickname = ""
    THEN response.nickname ELSE capturedNickname

\* parseAndStoreArticles(response, config)
parseAndStoreArticles(response) ==
  IF response.kind # "json" \/ response.ret # 0
    THEN UNCHANGED capVars
  ELSE
    LET newArticles == newArticlesOf(response.list)
        nick == nicknameAfter(response)
        articles == push(capturedArticles, uniqueNewArticles(newArticles))
    IN /\ capturedNickname' = nick
       /\ IF response.listOk /\ newArticles # <<>>
            THEN /\ capturedArticles' = articles
                 /\ articlesFound' =
                      Append(articlesFound,
                             [articles |-> articles, nickname |-> nick])
            ELSE UNCHANGED <<capturedArticles, articlesFound>>

\* clearCapturedArticles()
clearCapturedArticles ==
  /\ capturedArticles' = <<>>
  /\ capturedNickname' = ""
  /\ UNCHANGED articlesFound

\* forwardToRealServer called for the i-th decrypted chunk of the client:
\*   capture   captureResponse
\*   phase     "connecting" | "open" | "ended" | "failed"
\*   got       the chunks written to this upstream socket, by their index
\*   sent      the chunks this upstream sent, in the order of its 'data'
\*             events: the request (chunk index) answered, and a byte
\*   captured  responseChunks
\*   response  what parseAndStoreArticles was called with at the 'end'
\*             event (phase "parsing": the call did not return)
NoResponse == Response("none", 0, "", FALSE, <<>>)
NewForward(capture) ==
  [capture |-> capture, phase |-> "connecting", got |-> <<>>, sent |-> <<>>,
   captured |-> <<>>, response |-> NoResponse]

\* a call that does not return keeps the event loop: no other callback of
\* the process runs
EventLoopBlocked == conn.phase = "hung"

\* clientTlsSocket.pipe(serverSocket) of lines 269 and 273: every upstream
\* whose connect callback ran gets each later chunk of the client
pipedTo(forwards, i) ==
  [k \in DOMAIN forwards |->
     IF forwards[k].phase = "open"
       THEN [forwards[k] EXCEPT !.got = Append(@, i)] ELSE forwards[k]]

\* the listeners tunnelConnection registers for 'error' on the client socket
\* (the http server removed its own before the 'connect' event; the listener
\* a pipe adds emits the error again when it is the only one)
clientErrorHandledAlways == TRUE
clientErrorHandled == FALSE

\* the raw client socket of a tunnelled connection fails (the client resets
\* the connection); the socket is destroyed
clientError ==
  /\ conn.phase \in {"connecting", "tunnel"}
  /\ conn' = [conn EXCEPT
       !.phase = "closed",
       !.errors = Append(@, ErrorEvent("client", clientErrorHandled))]
  /\ UNCHANGED lifeVars

\* handleHttpsConnect, lines 211-223: the 'error' handler of the client TLS
\* socket, which also gets the failures of the raw socket it wraps, ends the
\* client socket
tlsError ==
  /\ conn.phase = "intercept"
  /\ conn' = [conn EXCEPT
       !.phase = "ended", !.tlsEnded = TRUE,
       !.errors = Append(@, ErrorEvent("tls", TRUE))]
  /\ UNCHANGED lifeVars

\* handleHttpsConnect, lines 178-209: the 'data' handler of the TLS socket
\* calls checkAndExtractCompleteCookie and forwardToRealServer, which opens
\* an upstream connection (capture: the request has the getmsg marker)
tlsData(isGetmsgRequest) ==
  /\ conn.phase = "intercept"
  /\ Len(conn.forwards) < MaxChunks
  /\ conn' = [conn EXCEPT
       !.extractions = @ + 1,
       !.forwards = Append(pipedTo(@, Len(@) + 1),
                           NewForward(isGetmsgRequest))]
  /\ UNCHANGED lifeVars

\* forwardToRealServer, lines 243-275: the callback of tls.connect writes
\* the chunk the forward was made for
forwardConnected(j) ==
  /\ ~EventLoopBlocked
  /\ conn.forwards[j].phase = "connecting"
  /\ conn' = [conn EXCEPT !.forwards[j].phase = "open",
                          !.forwards[j].got = Append(@, j)]
  /\ UNCHANGED lifeVars

\* the chunks the upstreams of the connection sent so far
RECURSIVE SumSent(_)
SumSent(n) == IF n = 0 THEN 0 ELSE Len(conn.forwards[n].sent) + SumSent(n - 1)

\* the requests upstream j may send a chunk for: one it got, not before the
\* one it answered last
Answerable(j) ==
  LET f == conn.forwards[j]
  IN {r \in {f.got[k] : k \in 1..Len(f.got)} :
        \A k \in 1..Len(f.sent) : f.sent[k].req <= r}

\* a 'data' event of upstream j. Lines 251-255: a capturing forward keeps
\* the chunk and writes it to the client; line 272: a pipe writes it to the
\* client. A write to the client TLS socket after its end() delivers nothing.
forwardData(j, r, b) ==
  /\ ~EventLoopBlocked
  /\ conn.forwards[j].phase = "open"
  /\ SumSent(Len(conn.forwards)) < MaxReplies
  /\ r \in Answerable(j)
  /\ conn' = [conn EXCEPT
       !.forwards[j].sent = Append(@, [req |-> r, byte |-> b]),
       !.forwards[j].captured =
          IF conn.forwards[j].capture
            THEN Append(@, [req |-> r, byte |-> b]) ELSE @,
       !.tlsGot = IF conn.tlsEnded THEN @
                  ELSE Append(@, [from |-> j, req |-> r, byte |-> b])]
  /\ UNCHANGED lifeVars

\* what Buffer.concat(responseChunks) may be at the 'end' event: each way
\* to fail, a list of no record, and lists of records
CapturedResponses ==
  {Response(k, 0, "", FALSE, <<>>) : k \in {"noHeader", "gzipFail", "jsonFail"}}
  \cup {ChunkedGzip(b) : b \in {"1\r\na\r\n0\r\n\r\n", "-a\r\n"}}
  \cup {Response("json", 1, "n1", TRUE, <<Msg("u1", <<>>)>>),
        Response("json", 0, "n1", FALSE, <<>>),
        Response("json", 0, "n1", TRUE, <<>>),
        Response("json", 0, "n1", TRUE, <<NoInfoMsg>>),
        Response("json", 0, "n1", TRUE, <<Msg("u1", <<>>)>>),
        Response("json", 0, "", TRUE, <<Msg("u1", <<>>), Msg("u2", <<>>)>>)}

\* the 'end' event of upstream j; lines 257-266: a capturing forward calls
\* parseAndStoreArticles with the chunks it kept (none: no header
\* terminator) and then ends the client TLS socket, as the pipe of line 272
\* does
forwardEnd(j, response) ==
  /\ ~EventLoopBlocked
  /\ conn.forwards[j].phase = "open"
  /\ IF conn.forwards[j].capture
       THEN /\ response \in CapturedResponses
            /\ conn.forwards[j].captured = <<>> => response.kind = "noHeader"
            /\ parseAndStoreArticles(response)
            /\ conn' =
                 IF parseReturns(response)
                   THEN [conn EXCEPT !.forwards[j].phase = "ended",
                                     !.forwards[j].response = response,
                                     !.parses = @ + 1,
                                     !.tlsEnded = TRUE]
                   ELSE [conn EXCEPT !.phase = "hung",
                                     !.forwards[j].phase = "parsing",
                                     !.forwards[j].response = response,
                                     !.parses = @ + 1]
       ELSE /\ response = NoResponse
            /\ conn' = [conn EXCEPT !.forwards[j].phase = "ended",
                                    !.tlsEnded = TRUE]
            /\ UNCHANGED capVars
  /\ UNCHANGED lifeVars

\* forwardToRealServer, lines 278-289: the 'error' handler of upstream j
\* ends the client TLS socket
forwardError(j) ==
  /\ ~EventLoopBlocked
  /\ conn.forwards[j].phase \in {"connecting", "open"}
  /\ conn' = [conn EXCEPT !.forwards[j].phase = "failed", !.tlsEnded = TRUE,
                          !.errors = Append(@, ErrorEvent("upstream", TRUE))]
  /\ UNCHANGED lifeVars

RelayConnect ==
  /\ \E url \in ConnectUrls, head \in Heads : connectHandler(url, head)
  /\ UNCHANGED relayRest
ClientSend == (\E b \in RelayBytes : clientSend(b)) /\ UNCHANGED relayRest
TunnelConnected == tunnelConnected /\ UNCHANGED relayRest
PipeToUpstream ==
  (\E k \in 1..MaxSent : pipeToUpstream(k)) /\ UNCHANGED relayRest
UpstreamSend ==
  (\E b \in RelayBytes : upstreamSend(b)) /\ UNCHANGED relayRest
PipeToClient ==
  (\E k \in 1..MaxSent : pipeToClient(k)) /\ UNCHANGED relayRest
TunnelError == tunnelError /\ UNCHANGED relayRest
ClientError == clientError /\ UNCHANGED relayRest
TlsError == tlsError /\ UNCHANGED relayRest
TlsData ==
  (\E isGetmsgRequest \in BOOLEAN : tlsData(isGetmsgRequest))
    /\ UNCHANGED relayRest
ForwardConnected ==
  (\E j \in DOMAIN conn.forwards : forwardConnected(j))
    /\ UNCHANGED relayRest
ForwardData ==
  (\E j \in DOMAIN conn.forwards, r \in 1..MaxChunks, b \in RelayBytes :
     forwardData(j, r, b)) /\ UNCHANGED relayRest
ForwardEnd ==
  (\E j \in DOMAIN conn.forwards,
      response \in CapturedResponses \cup {NoResponse} :
     forwardEnd(j, response)) /\ UNCHANGED <<arg, ret, appVars>>
ForwardError ==
  (\E j \in DOMAIN conn.forwards : forwardError(j)) /\ UNCHANGED relayRest

RelayNext ==
  \/ RelayConnect
  \/ ClientSend
  \/ TunnelConnected
  \/ PipeToUpstream
  \/ UpstreamSend
  \/ PipeToClient
  \/ TunnelError
  \/ ClientError
  \/ TlsError
  \/ TlsData
  \/ ForwardConnected
  \/ ForwardEnd

RelaySpec == RelayInit /\ [][RelayNext]_vars

\* an intercepted connection, from the return of handleHttpsConnect: the
\* certificate of the host is minted and cached, the client got the 200
\* response and its socket is wrapped in the TLS socket
InterceptInit ==
  /\ server = 1
  /\ isClosing = FALSE
  /\ caCert = "CA"
  /\ certCache = {WechatDomain}
  /\ starts = <<[NewServer EXCEPT !.status = "resolved", !.phase = "bound",
                                  !.conns = 1]>>
  /\ stops = <<>>
  /\ arg = NoArg
  /\ ret = NoCall
  /\ conn = [NoConn EXCEPT !.phase = "intercept",
                           !.url = WechatDomain \o ":443",
                           !.mints = 1, !.clientGot = Established]
  /\ CapInit
  /\ AppInit

InterceptNext ==
  \/ TlsData
  \/ TlsError
  \/ ForwardConnected
  \/ ForwardData
  \/ ForwardEnd
  \/ ForwardError

InterceptSpec == InterceptInit /\ [][InterceptNext]_vars

\* s is a prefix of t
IsPrefixOfSeq(s, t) == Len(s) <= Len(t) /\ \A i \in 1..Len(s) : s[i] = t[i]
IsPrefix(s, t) == Len(s) <= Len(t) /\ s = SubSeq(t, 1, Len(s))

\* C7: on a connection whose CONNECT host does not contain mp.weixin.qq.com
\* there is no call of the credential extraction or of the record parser and
\* no certificate is minted; what the upstream got is, byte for byte and in
\* order, what the client sent (the head of the CONNECT first), and what the
\* client got after the 200 response is what the upstream sent: a prefix of
\* it at any time, and all of it but the bytes that wait in a pipe while the
\* tunnel is up.
C7_TunnelRelaysUnmodified ==
  (conn.phase # "none" /\ ~Includes(parseHost(conn.url), WechatDomain)) =>
    /\ conn.extractions = 0
    /\ conn.parses = 0
    /\ conn.mints = 0
    /\ conn.forwards = <<>>
    /\ IsPrefix(conn.upstreamGot, conn.head \o conn.sent)
    /\ IsPrefix(conn.clientGot, Established \o conn.upstreamSent)
    /\ conn.phase = "tunnel" =>
         /\ conn.upstreamGot \o conn.clientBuf = conn.head \o conn.sent
         /\ conn.clientGot \o conn.upstreamBuf =
              Established \o conn.upstreamSent

\* a tunnel to a host that is not the target has carried a head and two
\* bytes each way, the target's certificate being in the cache already
C7_Witness ==
  /\ conn.phase = "tunnel"
  /\ conn.url = "a.com:443"
  /\ conn.head = "h"
  /\ conn.upstreamGot = "hab"
  /\ conn.clientGot = Established \o "ba"
  /\ certCache = {"mp.weixin.qq.com"}

\* ------------------------------------------------------------------------
\* The record-capture specification: calls of parseAndStoreArticles
\* ------------------------------------------------------------------------
\* message lists: empty, one record, records of two messages, a url twice
\* in one list, a message with sub-items (one repeating its own url), a
\* message without app_msg_ext_info
MsgLists ==
  {<<>>,
   <<Msg("u1", <<>>)>>,
   <<Msg("u1", <<>>), Msg("u2", <<>>)>>,
   <<Msg("u2", <<>>), Msg("u3", <<>>)>>,
   <<Msg("u3", <<>>), Msg("u3", <<>>)>>,
   <<Msg("u4", <<"u5", "u4">>)>>,
   <<NoInfoMsg, Msg("u2", <<"u1">>)>>,
   <<NoInfoMsg>>}

\* chunked bodies: one chunk, a negative size line, nothing
ChunkedGzipBodies == {"1\r\na\r\n0\r\n\r\n", "-a\r\n", ""}

Responses ==
  {Response(k, 0, "", FALSE, <<>>) : k \in {"noHeader", "gzipFail", "jsonFail"}}
  \cup {ChunkedGzip(b) : b \in ChunkedGzipBodies}
  \cup {Response("json", 1, "n1", TRUE, <<Msg("u1", <<>>)>>)}
  \cup {Response("json", 0, n, FALSE, <<>>) : n \in {"", "n1"}}
  \cup {Response("json", 0, n, TRUE, l) : n \in {"", "n1", "n2"}, l \in MsgLists}

\* the number of responses handled so far is kept in ret, and whether the
\* last call returned; nothing runs while a call does not return
CaptureInit ==
  /\ LifeInit
  /\ arg = NoArg
  /\ ret = [called |-> FALSE, responses |-> 0, returns |-> TRUE]
  /\ conn = NoConn
  /\ CapInit
  /\ AppInit

ParseAndStoreArticles ==
  /\ ret.returns
  /\ ret.responses < MaxResponses
  /\ \E response \in Responses :
       /\ parseAndStoreArticles(response)
       /\ arg' = response
       /\ ret' = [called |-> TRUE, responses |-> ret.responses + 1,
                  returns |-> parseReturns(response)]
  /\ UNCHANGED <<lifeVars, conn, appVars>>

ClearCapturedArticles ==
  /\ ret.called
  /\ ret.returns
  /\ capturedArticles # <<>> \/ capturedNickname # ""
  /\ clearCapturedArticles
  /\ UNCHANGED <<lifeVars, conn, arg, ret, appVars>>

CaptureNext == ParseAndStoreArticles \/ ClearCapturedArticles

CaptureSpec == CaptureInit /\ [][CaptureNext]_vars

\* C11: the cumulative record list never holds two records with the same
\* url, whether the url came again in a later response or twice in one
\* response, and a response leaves the records captured before it in place,
\* adding its own after them in their order.
C11_NoDuplicateUrls ==
  \A i, j \in 1..Len(capturedArticles) :
    capturedArticles[i] = capturedArticles[j] => i = j

\* the part of C11 that holds: a url captured by an earlier response is
\* not added again, and the earlier records stay where they are
NoDuplicateAcrossResponses ==
  [][(ret'.responses # ret.responses) =>
       /\ IsPrefixOfSeq(capturedArticles, capturedArticles')
       /\ \A i \in (Len(capturedArticles) + 1)..Len(capturedArticles') :
            capturedArticles'[i] \notin UrlsOf(capturedArticles)]_vars

\* the chunks the client got in answer to request r, and those it got from
\* upstream j, as the upstreams sent them
AnswersTo(r) ==
  LET IsFor(e) == e.req = r
      got == SelectSeq(conn.tlsGot, IsFor)
  IN [k \in 1..Len(got) |-> [req |-> got[k].req, byte |-> got[k].byte]]
DeliveredFrom(j) ==
  LET IsFrom(e) == e.from = j
      got == SelectSeq(conn.tlsGot, IsFrom)
  IN [k \in 1..Len(got) |-> [req |-> got[k].req, byte |-> got[k].byte]]

\* C12: for a request with the capture marker, what the client is delivered
\* in answer to it is the sequence of chunks received from the upstream of
\* that request, in receipt order, as a pipe from that upstream would
\* deliver it, and the captured buffer is that same sequence.
C12_CaptureDeliversUpstream ==
  \A j \in DOMAIN conn.forwards :
    (conn.forwards[j].capture /\ ~conn.tlsEnded) =>
      /\ AnswersTo(j) = conn.forwards[j].sent
      /\ conn.forwards[j].captured = conn.forwards[j].sent

\* the part of C12 that holds: what the client got from one upstream is what
\* that upstream sent, in order (all of it until the client TLS socket is
\* ended), whether the forward captures or pipes, and the captured buffer
\* of a capturing forward is what its upstream sent
ForwardDeliversInOrder ==
  \A j \in DOMAIN conn.forwards :
    /\ IsPrefixOfSeq(DeliveredFrom(j), conn.forwards[j].sent)
    /\ ~conn.tlsEnded => DeliveredFrom(j) = conn.forwards[j].sent
    /\ conn.forwards[j].capture =>
         conn.forwards[j].captured = conn.forwards[j].sent

\* C13: an error on a socket of a connection (raw client socket, client TLS
\* socket, upstream socket; tunnel or intercept path) is taken by an 'error'
\* listener of that connection and never escapes as an uncaught exception,
\* and it leaves the listening server bound and isProxyRunning() true.
C13_SocketErrorsHandled ==
  /\ \A k \in 1..Len(conn.errors) : conn.errors[k].handled
  /\ conn.errors # <<>> => (isProxyRunning /\ starts[1].phase = "bound")

\* the part of C13 that holds: the errors of the upstream sockets and of the
\* client TLS socket are taken by their handlers, and no socket error
\* changes the server
UpstreamAndTlsErrorsHandled ==
  /\ \A k \in 1..Len(conn.errors) :
       conn.errors[k].socket \in {"upstream", "tls"} => conn.errors[k].handled
  /\ conn.errors # <<>> => (isProxyRunning /\ starts[1].phase = "bound")

\* ------------------------------------------------------------------------
\* One-click monitoring: the handlers 'auto-start-cookie-monitoring' and
\* 'auto-stop-cookie-monitoring' of main.ts, and the registry functions of
\* systemProxy.ts they call
\* ------------------------------------------------------------------------
MaxRuns == 3

\* main.ts lines 747-748
PROXY_ADDRESS == "127.0.0.1:8899"
\* a proxy the user had configured before
OtherProxy == "corp:8080"

\* how a PowerShell command line can end. enableSystemProxy runs two
\* Set-ItemProperty statements in one command line: "partial" is the run in
\* which ProxyEnable was written and the write of ProxyServer failed.
ExecOutcomes == {"ok", "failed", "partial"}

\* enableSystemProxy(proxyAddress), systemProxy.ts lines 10-30: the registry
\* after the call and the boolean returned (it never throws)
enableSystemProxy(proxyAddress, outcome) ==
  CASE outcome = "ok" ->
         [os |-> [enabled |-> TRUE, server |-> proxyAddress], ok |-> TRUE]
    [] outcome = "partial" ->
         [os |-> [osProxy EXCEPT !.enabled = TRUE], ok |-> FALSE]
    [] OTHER -> [os |-> osProxy, ok |-> FALSE]

\* disableSystemProxy(), lines 35-55: one statement, ProxyEnable = 0;
\* ProxyServer is left as it is
disableSystemProxy(outcome) ==
  IF outcome = "ok"
    THEN [os |-> [osProxy EXCEPT !.enabled = FALSE], ok |-> TRUE]
    ELSE [os |-> osProxy, ok |-> FALSE]

\* getProxyStatus(), lines 60-89. ProxyServer is read only when the proxy is
\* enabled; a failed read of ProxyServer leaves server null ("partial"), a
\* failed read of ProxyEnable returns { enabled: false, server: null }.
\* null and '' are both written "": the handlers only test `server` for truth.
getProxyStatus(outcome) ==
  CASE outcome = "ok" ->
         [enabled |-> osProxy.enabled,
          server |-> IF osProxy.enabled THEN Trim(osProxy.server) ELSE ""]
    [] outcome = "partial" -> [enabled |-> osProxy.enabled, server |-> ""]
    [] OTHER -> [enabled |-> FALSE, server |-> ""]

\* main.ts lines 820-826 and 848-854: put the remembered settings back
restoreSettings(original, outcome) ==
  IF original.enabled /\ original.server # ""
    THEN enableSystemProxy(original.server, outcome)
    ELSE disableSystemProxy(outcome)

\* the outcomes of the command line that restoreSettings runs
restoreOutcomes(original) ==
  IF original.enabled /\ original.server # ""
    THEN ExecOutcomes ELSE {"ok", "failed"}

\* `await startProxyServer(...)` run to the settlement of its promise:
\* "already running" (the test of line 56), "resolved" (listening), "ca"
\* (generateCACertificate threw) or "bind" (the 'error' handler ran:
\* server = null)
StartOutcomes == {"already running", "resolved", "ca", "bind"}
awaitStartProxyServer(outcome) ==
  IF AlreadyRunning
    THEN /\ outcome = "already running"
         /\ starts' = Append(starts, Rejected("already running"))
         /\ UNCHANGED <<server, isClosing, caCert, certCache, stops>>
    ELSE
      /\ outcome \in {"resolved", "ca", "bind"}
      /\ isClosing' = FALSE
      /\ caCert' = IF outcome = "ca" THEN caCert ELSE "CA"
      /\ server' = IF outcome = "resolved" THEN Len(starts) + 1 ELSE NULL
      /\ starts' = Append(starts,
           CASE outcome = "resolved" ->
                  [NewServer EXCEPT !.status = "resolved", !.phase = "bound"]
             [] outcome = "bind" ->
                  [NewServer EXCEPT !.status = "rejected", !.err = "bind",
                                    !.phase = "unbound"]
             [] OTHER -> Rejected("ca"))
      /\ UNCHANGED <<certCache, stops>>

\* `await stopProxyServer()` of a running server, run to the settlement of
\* its promise: the listen handle is closed, server = null
awaitStopProxyServer ==
  /\ server' = NULL
  /\ isClosing' = FALSE
  /\ certCache' = {}
  /\ starts' = [starts EXCEPT ![server].phase = "unbound"]
  /\ stops' = Append(stops, [status |-> "resolved", timer |-> "cleared"])
  /\ UNCHANGED caCert

otherVars == <<arg, ret, conn, capVars, caFiles, http, leafMints, suspended>>

Step(pc) == [handler EXCEPT !.pc = pc]
Called(h, what) == [h EXCEPT !.calls = Append(@, what)]
Return(result) == Idle(handler.runs, result)

\* the renderer invokes 'auto-start-cookie-monitoring'
autoStartInvoke ==
  /\ handler.name = "idle"
  /\ handler.runs < MaxRuns
  /\ handler' = [name |-> "start", pc |-> "step0", calls |-> <<>>,
                 before |-> osProxy, captured |-> FALSE,
                 remembered |-> originalProxySettings # NoSettingsKept,
                 result |-> "none", runs |-> handler.runs + 1]
  /\ UNCHANGED <<lifeVars, osProxy, originalProxySettings>>

\* line 751: `if (isProxyRunning())`
stopFirstNever == FALSE
stopFirst == isProxyRunning

\* lines 750-756: a running proxy is stopped first
autoStartStep0 ==
  /\ handler.name = "start" /\ handler.pc = "step0"
  /\ IF stopFirst
       THEN /\ awaitStopProxyServer
            /\ handler' = Called(Step("step1"), "stopProxyServer")
       ELSE /\ handler' = Step("step1")
            /\ UNCHANGED lifeVars
  /\ UNCHANGED <<osProxy, originalProxySettings>>

\* lines 758-772: the CA certificate is installed, or the handler returns
autoStartStep1(installed) ==
  /\ handler.name = "start" /\ handler.pc = "step1"
  /\ handler' = IF installed THEN Step("step2") ELSE Return("failure")
  /\ UNCHANGED <<lifeVars, osProxy, originalProxySettings>>

\* line 775: originalProxySettings = await getProxyStatus()
autoStartStep2(outcome) ==
  /\ handler.name = "start" /\ handler.pc = "step2"
  /\ originalProxySettings' = getProxyStatus(outcome)
  /\ handler' = [Called(Step("step3"), "getProxyStatus")
                   EXCEPT !.captured = TRUE]
  /\ UNCHANGED <<lifeVars, osProxy>>

\* lines 779-785: await startProxyServer; a rejection goes to the catch
autoStartStep3(outcome) ==
  /\ handler.name = "start" /\ handler.pc = "step3"
  /\ awaitStartProxyServer(outcome)
  /\ handler' = Called(Step(IF outcome = "resolved" THEN "step4"
                                                     ELSE "catch"),
                       "startProxyServer")
  /\ UNCHANGED <<osProxy, originalProxySettings>>

\* lines 788-805: the system proxy is pointed at the local proxy; if that
\* fails the proxy is stopped and the handler returns
autoStartStep4(outcome) ==
  /\ handler.name = "start" /\ handler.pc = "step4"
  /\ LET r == enableSystemProxy(PROXY_ADDRESS, outcome)
     IN /\ osProxy' = r.os
        /\ IF r.ok
             THEN /\ handler' = Return("success")
                  /\ UNCHANGED lifeVars
             ELSE /\ awaitStopProxyServer
                  /\ handler' = Return("failure")
  /\ UNCHANGED originalProxySettings

\* lines 806-837: the catch block
autoStartCatch(outcome) ==
  /\ handler.name = "start" /\ handler.pc = "catch"
  /\ IF isProxyRunning THEN awaitStopProxyServer ELSE UNCHANGED lifeVars
  /\ IF originalProxySettings # NoSettingsKept
       THEN /\ outcome \in restoreOutcomes(originalProxySettings)
            /\ osProxy' = restoreSettings(originalProxySettings, outcome).os
            /\ originalProxySettings' = NoSettingsKept
       ELSE /\ outcome = "ok"
            /\ UNCHANGED <<osProxy, originalProxySettings>>
  /\ handler' = Return("failure")

\* the renderer invokes 'auto-stop-cookie-monitoring'
autoStopInvoke ==
  /\ handler.name = "idle"
  /\ handler.runs < MaxRuns
  /\ handler' = [name |-> "stop", pc |-> "restore", calls |-> <<>>,
                 before |-> osProxy, captured |-> FALSE,
                 remembered |-> originalProxySettings # NoSettingsKept,
                 result |-> "none", runs |-> handler.runs + 1]
  /\ UNCHANGED <<lifeVars, osProxy, originalProxySettings>>

\* line 858: what is assigned to originalProxySettings after the restore
autoStopKept == originalProxySettings
autoStopCleared == NoSettingsKept

\* lines 845-861: the remembered settings are put back and forgotten
autoStopRestore(outcome) ==
  /\ handler.name = "stop" /\ handler.pc = "restore"
  /\ IF originalProxySettings # NoSettingsKept
       THEN /\ outcome \in restoreOutcomes(originalProxySettings)
            /\ osProxy' = restoreSettings(originalProxySettings, outcome).os
            /\ originalProxySettings' = autoStopCleared
            /\ handler' = Called(Step("stop"), "restore")
       ELSE /\ outcome = "ok"
            /\ handler' = Step("stop")
            /\ UNCHANGED <<osProxy, originalProxySettings>>
  /\ UNCHANGED lifeVars

\* lines 864-870: a running proxy is stopped
autoStopStop ==
  /\ handler.name = "stop" /\ handler.pc = "stop"
  /\ IF isProxyRunning
       THEN /\ awaitStopProxyServer
            /\ handler' = Called(Step("return"), "stopProxyServer")
       ELSE /\ handler' = Step("return")
            /\ UNCHANGED lifeVars
  /\ UNCHANGED <<osProxy, originalProxySettings>>

\* lines 874-876
autoStopReturn ==
  /\ handler.name = "stop" /\ handler.pc = "return"
  /\ handler' = Return("success")
  /\ UNCHANGED <<lifeVars, osProxy, originalProxySettings>>

\* the settings of the system proxy when the application started, kept to
\* compare with
Session(os) == [kind |-> "session", before |-> os]

\* before the first invocation: the proxy is not running, nothing is
\* remembered, and the system proxy is whatever the user had, which is not
\* the local proxy
MonitorInit ==
  /\ LifeInit
  /\ ret = NoCall
  /\ conn = NoConn
  /\ CapInit
  /\ originalProxySettings = NoSettingsKept
  /\ handler = Idle(0, "none")
  /\ suspended = Idle(0, "none")
  /\ caFiles = NoCAFiles
  /\ http = NoRequest
  /\ leafMints = NoMints
  /\ osProxy \in [enabled : BOOLEAN, server : {"", OtherProxy}]
  /\ arg = Session(osProxy)

AutoStartInvoke == autoStartInvoke /\ UNCHANGED otherVars
AutoStartStep0 == autoStartStep0 /\ UNCHANGED otherVars
AutoStartStep1 ==
  \E installed \in BOOLEAN : autoStartStep1(installed) /\ UNCHANGED otherVars
AutoStartStep2 ==
  \E o \in ExecOutcomes : autoStartStep2(o) /\ UNCHANGED otherVars
AutoStartStep3 ==
  \E o \in StartOutcomes : autoStartStep3(o) /\ UNCHANGED otherVars
AutoStartStep4 ==
  \E o \in ExecOutcomes : autoStartStep4(o) /\ UNCHANGED otherVars
AutoStartCatch ==
  \E o \in ExecOutcomes : autoStartCatch(o) /\ UNCHANGED otherVars
AutoStopInvoke == autoStopInvoke /\ UNCHANGED otherVars
AutoStopRestore ==
  \E o \in ExecOutcomes : autoStopRestore(o) /\ UNCHANGED otherVars
AutoStopStop == autoStopStop /\ UNCHANGED otherVars
AutoStopReturn == autoStopReturn /\ UNCHANGED otherVars

MonitorNext ==
  \/ AutoStartInvoke
  \/ AutoStartStep0
  \/ AutoStartStep1
  \/ AutoStartStep2
  \/ AutoStartStep3
  \/ AutoStartStep4
  \/ AutoStartCatch
  \/ AutoStopInvoke
  \/ AutoStopRestore
  \/ AutoStopStop
  \/ AutoStopReturn

MonitorSpec == MonitorInit /\ [][MonitorNext]_vars

Last(s) == s[Len(s)]
Range(s) == {s[k] : k \in DOMAIN s}

\* C14: in auto-stop, when original settings are remembered, the call that
\* restores them has returned before stopProxyServer is invoked, and
\* originalProxySettings is null when the handler returns.
C14_RestoreBeforeStop ==
  [][/\ (/\ handler.name = "stop"
         /\ handler'.name = "stop"
         /\ Len(handler'.calls) > Len(handler.calls)
         /\ Last(handler'.calls) = "stopProxyServer"
         /\ handler.remembered)
        => "restore" \in Range(handler.calls)
     /\ (handler.name = "stop" /\ handler'.name = "idle")
        => originalProxySettings' = NoSettingsKept]_vars

C14_Witness ==
  /\ handler.name = "stop"
  /\ handler.remembered
  /\ handler.pc = "return"
  /\ handler.calls = <<"restore", "stopProxyServer">>
  /\ originalProxySettings = NoSettingsKept

\* the system proxy points at the local proxy
PointsAtLocal == osProxy.enabled /\ osProxy.server = PROXY_ADDRESS

\* C15: when auto-start fails after it captured the original settings, then
\* on return the proxy is not running and ProxyEnable and ProxyServer have
\* the values they had before the call.
C15_FailedStartRestores ==
  [][(/\ handler.name = "start"
      /\ handler.captured
      /\ handler'.name = "idle"
      /\ handler'.result = "failure")
     => (~isProxyRunning' /\ osProxy' = handler.before)]_vars

\* C16: whenever no handler is running, the system proxy points at
\* 127.0.0.1:8899 exactly when the proxy server is running.
C16_LocalIffRunning ==
  handler.name = "idle" => (PointsAtLocal <=> isProxyRunning)

\* ------------------------------------------------------------------------
\* Certificates: generateCACertificate and generateServerCertificate of
\* systemProxy.ts
\* ------------------------------------------------------------------------
MaxKeys == 2

\* forge.pki.rsa.generateKeyPair(2048): some key pair
KeyIds == 1..MaxKeys

\* PEM text and the object it encodes: privateKeyToPem / certificateToPem
\* put the object into an envelope, privateKeyFromPem / certificateFromPem
\* take it out again
NoPem == <<>>
privateKeyToPem(key) == <<"RSA PRIVATE KEY", [id |-> key]>>
privateKeyFromPem(pem) == pem[2].id
certificateToPem(cert) == <<"CERTIFICATE", cert>>
certificateFromPem(pem) == pem[2]

\* a file that does not exist, a file with a content
Absent == [exists |-> FALSE, pem |-> NoPem]
File(pem) == [exists |-> TRUE, pem |-> pem]

\* lines 1439-1464: the subject of the CA the program generates
CAName == "WeChat Article Analyzer CA"
CAAttrs(cn) ==
  [CN |-> cn, C |-> "CN", ST |-> "Beijing", L |-> "Beijing",
   O |-> "WeChat Article Analyzer", OU |-> "Certificate Authority"]

\* lines 1432-1488: the self-signed CA certificate of the key pair `key`
caCertificate(cn, key) ==
  [publicKey |-> key, serialNumber |-> "01", subject |-> CAAttrs(cn),
   issuer |-> CAAttrs(cn), cA |-> TRUE, altNames |-> <<>>,
   signedBy |-> key]

\* line 1418: fs.existsSync(CA_KEY_PATH) && fs.existsSync(CA_CERT_PATH)
caFilesExistNever == FALSE
caFilesExist == caFiles.key.exists /\ caFiles.cert.exists

\* generateCACertificate(), lines 1412-1509. fsOk: the file system calls
\* succeed (they throw otherwise, before anything is written); key: the key
\* pair generateKeyPair produces if it is called
generateCACertificate(fsOk, key) ==
  IF ~fsOk
    THEN /\ ret' = [fn |-> "generateCACertificate", threw |-> TRUE,
                    key |-> NoPem, cert |-> NoPem]
         /\ UNCHANGED caFiles
    ELSE IF caFilesExist
      THEN /\ ret' = [fn |-> "generateCACertificate", threw |-> FALSE,
                      key |-> caFiles.key.pem, cert |-> caFiles.cert.pem]
           /\ UNCHANGED caFiles
      ELSE LET keyPem == privateKeyToPem(key)
               certPem == certificateToPem(caCertificate(CAName, key))
           IN /\ caFiles' = [key |-> File(keyPem), cert |-> File(certPem)]
              /\ ret' = [fn |-> "generateCACertificate", threw |-> FALSE,
                         key |-> keyPem, cert |-> certPem]

\* lines 1565-1575: the subjectAltName extension
altNamesHostOnly(hostname) == <<hostname>>
altNames(hostname) == <<hostname, "*." \o hostname>>

\* generateServerCertificate(hostname, caCert, caKey), lines 1514-1589;
\* key: the key pair generated, serial: Date.now().toString(16)
generateServerCertificate(hostname, caCertPem, caKeyPem, key, serial) ==
  LET caKeyObj == privateKeyFromPem(caKeyPem)
      caCertObj == certificateFromPem(caCertPem)
      cert == [publicKey |-> key, serialNumber |-> serial,
               subject |-> [CN |-> hostname, C |-> "CN",
                            O |-> "WeChat Article Analyzer"],
               issuer |-> caCertObj.subject, cA |-> FALSE,
               altNames |-> altNames(hostname), signedBy |-> caKeyObj]
  IN [cert |-> certificateToPem(cert), key |-> privateKeyToPem(key)]

CertHosts == {WechatDomain, "a.com", "10.0.0.1"}
Serials == {"18f", "190"}

\* the CA files the program can find at start: none, or a pair written by
\* an earlier run or put there by the user
CAKeyFiles == {Absent} \cup {File(privateKeyToPem(k)) : k \in KeyIds}
CACertFiles ==
  {Absent} \cup {File(certificateToPem(caCertificate(cn, k))) :
                   cn \in {CAName, "My CA"}, k \in KeyIds}

certRest == <<lifeVars, conn, capVars, mainVars, http, leafMints>>

CertInit ==
  /\ LifeInit
  /\ arg = NoArg
  /\ ret = [fn |-> "none", threw |-> FALSE, key |-> NoPem, cert |-> NoPem]
  /\ conn = NoConn
  /\ CapInit
  /\ osProxy = NoSettings
  /\ originalProxySettings = NoSettingsKept
  /\ handler = Idle(0, "none")
  /\ suspended = Idle(0, "none")
  /\ http = NoRequest
  /\ leafMints = NoMints
  /\ caFiles \in [key : CAKeyFiles, cert : CACertFiles]

GenerateCACertificate ==
  \E fsOk \in BOOLEAN, key \in KeyIds :
    /\ generateCACertificate(fsOk, key)
    /\ arg' = [kind |-> "ca", files |-> caFiles]
    /\ UNCHANGED certRest

\* handleHttpsConnect line 160 passes the CA that startProxyServer loaded
GenerateServerCertificate ==
  \E hostname \in CertHosts, key \in KeyIds, serial \in Serials :
    /\ caFilesExist
    /\ arg' = [kind |-> "leaf", hostname |-> hostname,
               caCert |-> caFiles.cert.pem, caKey |-> caFiles.key.pem]
    /\ LET r == generateServerCertificate(hostname, caFiles.cert.pem,
                                          caFiles.key.pem, key, serial)
       IN ret' = [fn |-> "generateServerCertificate", threw |-> FALSE,
                  key |-> r.key, cert |-> r.cert]
    /\ UNCHANGED <<caFiles, certRest>>

\* the user removes one of the two files
RemoveCAFile ==
  \E f \in {"key", "cert"} :
    /\ caFiles[f].exists
    /\ caFiles' = [caFiles EXCEPT ![f] = Absent]
    /\ UNCHANGED <<arg, ret, certRest>>

CertNext ==
  \/ GenerateCACertificate
  \/ GenerateServerCertificate
  \/ RemoveCAFile

CertSpec == CertInit /\ [][CertNext]_vars

\* a call of generateCACertificate that returned
CAReturned == GenerateCACertificate /\ ~ret'.threw

BothCAFiles == caFiles.key.exists /\ caFiles.cert.exists

\* C17: with both CA files present generateCACertificate returns their
\* contents and writes nothing; it writes the files only when one of them is
\* absent, and then it returns new material.
C17_ExistingCAReused ==
  [][CAReturned =>
       /\ BothCAFiles =>
            /\ caFiles' = caFiles
            /\ ret'.key = caFiles.key.pem
            /\ ret'.cert = caFiles.cert.pem
       /\ caFiles' # caFiles =>
            (~caFiles.key.exists \/ ~caFiles.cert.exists)
       /\ ~BothCAFiles =>
            /\ caFiles'.key = File(ret'.key)
            /\ caFiles'.cert = File(ret'.cert)
            /\ certificateFromPem(ret'.cert).subject.CN = CAName]_vars

\* both files were there and the call returned them
C17_Witness ==
  /\ arg.kind = "ca"
  /\ arg.files.key.exists /\ arg.files.cert.exists
  /\ ret.fn = "generateCACertificate" /\ ~ret.threw
  /\ ret.cert = arg.files.cert.pem
  /\ caFiles = arg.files

\* one file was absent and the call wrote both
C17_WitnessRegenerated ==
  /\ arg.kind = "ca"
  /\ arg.files.key.exists /\ ~arg.files.cert.exists
  /\ ret.fn = "generateCACertificate" /\ ~ret.threw
  /\ caFiles.cert.exists
  /\ caFiles.key # arg.files.key

\* C18: a leaf certificate has the subject of the CA certificate as issuer,
\* is signed with the CA key, is not a CA, has the hostname as common name
\* and exactly the hostname and *.hostname as subject alternative names.
C18_LeafCertificate ==
  (arg.kind = "leaf" /\ ret.fn = "generateServerCertificate") =>
    LET leaf == certificateFromPem(ret.cert)
    IN /\ leaf.issuer = certificateFromPem(arg.caCert).subject
       /\ leaf.signedBy = privateKeyFromPem(arg.caKey)
       /\ leaf.cA = FALSE
       /\ leaf.subject.CN = arg.hostname
       /\ Range(leaf.altNames) = {arg.hostname, "*." \o arg.hostname}
       /\ Len(leaf.altNames) = 2

C18_Witness ==
  /\ arg.kind = "leaf" /\ ret.fn = "generateServerCertificate"
  /\ arg.hostname = WechatDomain
  /\ certificateFromPem(arg.caCert).subject.CN = "My CA"
  /\ certificateFromPem(ret.cert).issuer.CN = "My CA"
  /\ certificateFromPem(ret.cert).altNames[2] = "*." \o WechatDomain

\* ------------------------------------------------------------------------
\* startProxyServer when the CA cannot be loaded or generated
\* ------------------------------------------------------------------------
\* the startProxyServer call made in this step
StartedNow == starts'[Len(starts')]

\* C19: when generateCACertificate throws inside startProxyServer, the
\* promise is rejected with that error, no listener is created or bound, and
\* isProxyRunning() is false afterwards, so that a later start passes the
\* `if (server)` test.
C19_CAFailureRejects ==
  [][(Len(starts') = Len(starts) + 1 /\ StartedNow.err = "ca") =>
       /\ StartedNow.status = "rejected"
       /\ StartedNow.phase = "none"
       /\ {i \in DOMAIN starts' : starts'[i].phase = "bound"} = Bound
       /\ server' = NULL
       /\ ~AlreadyRunning']_vars

\* a start that failed on the CA was followed by one that listens
C19_Witness ==
  \E i \in DOMAIN starts :
    /\ starts[i].err = "ca"
    /\ \E j \in DOMAIN starts :
         j > i /\ starts[j].status = "resolved" /\ starts[j].phase = "bound"

\* ------------------------------------------------------------------------
\* handleHttpRequest: a plain HTTP request forwarded with http.request
\* ------------------------------------------------------------------------
MaxHttpChunks == 3

\* the requests studied: url, Host header, Cookie header
HttpRequests ==
  {[url |-> "/", host |-> "a.com", cookie |-> ""],
   [url |-> "/mp/profile_ext?action=getmsg&uin=U&key=K",
    host |-> WechatDomain, cookie |-> "wap_sid2=W"],
   [url |-> "/s", host |-> WechatDomain, cookie |-> "wap_sid2=W"]}

\* proxyRes.statusCode of the upstream answers (0: undefined)
UpstreamStatuses == {0, 200, 404}

\* ServerResponse.writeHead(statusCode) on the response r: it throws
\* ERR_HTTP_HEADERS_SENT when the head was written before
writeHead(r, statusCode) ==
  IF r.headersSent
    THEN [r EXCEPT !.thrown = Append(@, "ERR_HTTP_HEADERS_SENT")]
    ELSE [r EXCEPT !.headersSent = TRUE, !.status = statusCode]

\* handleHttpRequest, lines 97-131, up to clientReq.pipe(proxyReq)
handleHttpRequest(req) ==
  /\ http.phase = "none"
  /\ http' = [phase |-> "forwarding", headersSent |-> FALSE, status |-> 0,
              body |-> "", ended |-> FALSE, thrown |-> <<>>,
              found |-> checkAndExtractCompleteCookie(req.url, req.cookie,
                                                      req.host).found]

\* lines 119-122: the callback of http.request, on the upstream's head
onProxyResponse(statusCode) ==
  /\ http.phase = "forwarding"
  /\ http' = [writeHead(http, IF statusCode = 0 THEN 200 ELSE statusCode)
                EXCEPT !.phase = "relaying"]

\* proxyRes.pipe(clientRes): a chunk of the upstream body
onProxyData(b) ==
  /\ http.phase = "relaying"
  /\ Len(http.body) < MaxHttpChunks
  /\ http' = [http EXCEPT !.body = @ \o b]

\* proxyRes.pipe(clientRes): the upstream body ended
onProxyEnd ==
  /\ http.phase = "relaying"
  /\ http' = [http EXCEPT !.phase = "done", !.ended = TRUE]

\* the statement after a writeHead that did not throw (line 127)
endBadGateway(r) == [r EXCEPT !.body = @ \o "Bad Gateway", !.ended = TRUE]

\* lines 124-128: proxyReq.on('error'). The request fails before a response
\* head came (refused, reset, DNS) or while the response body is read
\* (reset); the exception of writeHead leaves the handler.
onProxyError ==
  /\ http.phase \in {"forwarding", "relaying"}
  /\ LET r == writeHead(http, 502)
     IN http' = [(IF Len(r.thrown) > Len(http.thrown)
                    THEN r ELSE endBadGateway(r))
                   EXCEPT !.phase = "failed"]

httpRest == <<arg, ret, conn, capVars, mainVars, caFiles, leafMints>>

HttpInit ==
  /\ server = 1
  /\ isClosing = FALSE
  /\ caCert = "CA"
  /\ certCache = {}
  /\ starts = <<[NewServer EXCEPT !.status = "resolved", !.phase = "bound",
                                  !.conns = 1]>>
  /\ stops = <<>>
  /\ arg = NoArg
  /\ ret = NoCall
  /\ conn = NoConn
  /\ CapInit
  /\ AppInit

HandleHttpRequest ==
  \E req \in HttpRequests :
    handleHttpRequest(req) /\ UNCHANGED <<lifeVars, httpRest>>
ProxyResponse ==
  \E statusCode \in UpstreamStatuses :
    onProxyResponse(statusCode) /\ UNCHANGED <<lifeVars, httpRest>>
ProxyData ==
  \E b \in RelayBytes : onProxyData(b) /\ UNCHANGED <<lifeVars, httpRest>>
ProxyEnd == onProxyEnd /\ UNCHANGED <<lifeVars, httpRest>>
ProxyError == onProxyError /\ UNCHANGED <<lifeVars, httpRest>>

HttpNext ==
  \/ HandleHttpRequest
  \/ ProxyResponse
  \/ ProxyData
  \/ ProxyEnd
  \/ ProxyError

HttpSpec == HttpInit /\ [][HttpNext]_vars

\* C20: after a failure of the upstream request the client has received
\* status 502, the failure handler has raised no error, and the listener is
\* still running, whether or not an upstream response head was relayed.
C20_BadGatewayOnFailure ==
  http.phase = "failed" =>
    /\ http.status = 502
    /\ http.thrown = <<>>
    /\ isProxyRunning /\ starts[server].phase = "bound"

\* a failure before any upstream response head is answered with 502 and
\* "Bad Gateway", and raises nothing
BadGatewayBeforeHead ==
  [][(http.phase = "forwarding" /\ http'.phase = "failed") =>
       /\ http'.status = 502
       /\ http'.body = "Bad Gateway"
       /\ http'.ended
       /\ http'.thrown = <<>>
       /\ isProxyRunning']_vars

\* ------------------------------------------------------------------------
\* The closing flag
\* ------------------------------------------------------------------------
\* a stopProxyServer call on a running server that has not resolved yet
StopInProgress == \E c \in DOMAIN stops : stops[c].status = "pending"

\* C21: while a stopProxyServer call on a running server is unresolved the
\* closing flag is true (so every per-connection error handler that runs
\* then reads true), and while the proxy runs with no stop in progress the
\* flag is false.
C21_ClosingFlag ==
  /\ StopInProgress => isClosing
  /\ (isProxyRunning /\ ~StopInProgress) => ~isClosing

\* the flag is false whenever the proxy runs and no stop is in progress
ClosingFlagClearWhenRunning ==
  (isProxyRunning /\ ~StopInProgress) => ~isClosing

\* ------------------------------------------------------------------------
\* The certificate cache of a running proxy
\* ------------------------------------------------------------------------
\* a listener of a successful start is bound and stopProxyServer has not
\* been called since it was bound
InService ==
  /\ ~leafMints.stopCalled
  /\ \E i \in Bound : starts[i].status = "resolved"

\* C22: between a successful startProxyServer and the next stopProxyServer
\* call at most one leaf certificate is generated per hostname, whatever the
\* order in which CONNECT requests are handled.
C22_OneMintPerHost ==
  InService => \A h \in ConnectHosts : leafMints.count[h] <= 1

\* CONNECT requests for two hostnames were handled by the running proxy and
\* each hostname has its certificate in the cache
C22_Witness ==
  /\ InService
  /\ leafMints.count[WechatDomain] = 1
  /\ leafMints.count["x.mp.weixin.qq.com"] = 1
  /\ certCache = {WechatDomain, "x.mp.weixin.qq.com"}

\* a CONNECT request for a hostname that is in the cache generates nothing
CachedHostNotMinted ==
  [][\A h \in ConnectHosts :
       leafMints'.count[h] > leafMints.count[h] => h \notin certCache]_vars

\* ------------------------------------------------------------------------
\* The order of events on the tunnel path
\* ------------------------------------------------------------------------
OnTunnelPath ==
  conn'.url # "" /\ ~Includes(parseHost(conn'.url), WechatDomain)

\* C23: on the tunnel path the first bytes the client receives are the 200
\* response, written in the step in which the upstream connection is
\* established; the upstream gets the CONNECT head before any later client
\* byte; and when the upstream connection fails the client socket is ended
\* and the client never receives anything.
C23_TunnelOrder ==
  [][OnTunnelPath =>
       /\ (conn.clientGot = "" /\ conn'.clientGot # "") =>
            /\ conn.phase = "connecting" /\ conn'.phase = "tunnel"
            /\ IsPrefix(Established, conn'.clientGot)
       /\ (conn.upstreamGot = "" /\ conn'.upstreamGot # "") =>
            /\ conn'.phase = "tunnel"
            /\ IsPrefix(conn'.head, conn'.upstreamGot)
       /\ conn'.phase = "tunnel" =>
            IsPrefix(conn'.head, conn'.upstreamGot)
       /\ (conn.phase = "connecting" /\ conn'.phase = "ended") =>
            /\ conn'.clientGot = ""
            /\ conn'.upstreamGot = ""
       /\ conn.phase = "ended" => conn' = conn]_vars

\* the upstream connection failed while bytes of the client were waiting:
\* the client socket was ended and the client got nothing
C23_Witness ==
  /\ conn.phase = "ended"
  /\ conn.url = "a.com:443"
  /\ conn.head = "h"
  /\ conn.sent = "ab"
  /\ conn.clientGot = ""
  /\ conn.errors = <<ErrorEvent("upstream", TRUE)>>

\* ------------------------------------------------------------------------
\* Termination of extractChunkedBody
\* ------------------------------------------------------------------------
\* C24: extractChunkedBody returns on every input buffer, and the offset of
\* each loop iteration is greater than the offset of the iteration before.
C24_ChunkLoopTerminates ==
  ret.called =>
    /\ ret.returns
    /\ \A k \in 1..(Len(ret.offsets) - 1) : ret.offsets[k] < ret.offsets[k + 1]

\* on the framings of a buffer and on their truncations the loop returns
\* and its offset increases
ChunkLoopTerminatesOnFramings ==
  (ret.called /\ arg.kind \in {"encoded", "truncated"}) =>
    /\ ret.returns
    /\ \A k \in 1..(Len(ret.offsets) - 1) : ret.offsets[k] < ret.offsets[k + 1]

\* C25: the cumulative record list only grows by appending: a call of
\* parseAndStoreArticles leaves the list it found as a prefix of the list it
\* leaves, and the only step after which the earlier list is not a prefix
\* of the later one is clearCapturedArticles, which empties it.
C25_ListGrowsByAppending ==
  [][/\ (ret'.responses # ret.responses) =>
          IsPrefixOfSeq(capturedArticles, capturedArticles')
     /\ ~IsPrefixOfSeq(capturedArticles, capturedArticles') =>
          /\ capturedArticles' = <<>>
          /\ capturedNickname' = ""
          /\ ret' = ret /\ arg' = arg]_vars

\* two responses were stored, the second after the records of the first
C25_Witness ==
  /\ ret.responses = 2
  /\ Len(articlesFound) = 2
  /\ articlesFound[1].articles = <<"u1", "u2">>
  /\ capturedArticles = <<"u1", "u2", "u3">>

\* the 'end' event of the capturing upstream j was handled in this step
CaptureEnded(j) ==
  /\ conn.forwards[j].capture
  /\ conn.forwards[j].phase = "open"
  /\ conn'.forwards[j].phase \in {"ended", "parsing"}

\* the response has no header terminator, a body that fails gzip
\* decompression or JSON parsing, a non-zero ret, or no record list
NoRecordList(response) ==
  \/ response.kind \in {"noHeader", "gzipFail", "gzipChunked", "jsonFail"}
  \/ response.ret # 0
  \/ ~response.listOk
  \/ response.list = <<>>

\* C26: when the upstream of a capturing forward ends and the captured
\* response has a non-zero ret, no header terminator, a body that fails
\* gzip decompression or JSON parsing, or no record list, the cumulative
\* record list is unchanged, onArticlesFound is not invoked, no error
\* leaves the handler, the handler returns and the client TLS socket is
\* ended.
C26_FailedCaptureIgnored ==
  [][\A j \in DOMAIN conn.forwards :
       (CaptureEnded(j) /\ NoRecordList(conn'.forwards[j].response)) =>
         /\ capturedArticles' = capturedArticles
         /\ articlesFound' = articlesFound
         /\ conn'.errors = conn.errors
         /\ conn'.forwards[j].phase = "ended"
         /\ conn'.tlsEnded]_vars

\* the part of C26 that holds: it is so for every such response on which
\* extractChunkedBody returns
FailedCaptureIgnoredWhenParsed ==
  [][\A j \in DOMAIN conn.forwards :
       (/\ CaptureEnded(j)
        /\ NoRecordList(conn'.forwards[j].response)
        /\ parseReturns(conn'.forwards[j].response)) =>
         /\ capturedArticles' = capturedArticles
         /\ articlesFound' = articlesFound
         /\ conn'.errors = conn.errors
         /\ conn'.forwards[j].phase = "ended"
         /\ conn'.tlsEnded]_vars

\* a gzip response in chunked framing whose de-chunking returns was handled
\* on a forward that had captured chunks, and the client socket is ended
FailedCaptureWitness ==
  \E j \in DOMAIN conn.forwards :
    /\ conn.forwards[j].phase = "ended"
    /\ conn.forwards[j].captured # <<>>
    /\ conn.forwards[j].response.kind = "gzipChunked"
    /\ conn.tlsEnded

\* the parsed batch of the response has at least one record
HasRecords(response) ==
  /\ response.kind = "json"
  /\ response.ret = 0
  /\ response.listOk
  /\ newArticlesOf(response.list) # <<>>

\* onArticlesFound was invoked once in this step, with the whole cumulative
\* list and the captured nickname
InvokedOnce ==
  articlesFound' =
    Append(articlesFound,
           [articles |-> capturedArticles', nickname |-> capturedNickname'])

\* C27: onArticlesFound is invoked once for each captured response whose
\* parsed batch has at least one record (new or not) and for no other, with
\* the whole cumulative list and the captured nickname, and only in the
\* handler of the upstream's 'end' event, when every chunk the upstream
\* sent for that response has been written to the client.
C27_CallbackAfterRelay ==
  [][/\ \A j \in DOMAIN conn.forwards :
          CaptureEnded(j) =>
            IF HasRecords(conn'.forwards[j].response)
              THEN /\ InvokedOnce
                   /\ DeliveredFrom(j) = conn.forwards[j].sent
              ELSE articlesFound' = articlesFound
     /\ articlesFound' # articlesFound =>
          \E j \in DOMAIN conn.forwards : CaptureEnded(j)]_vars

\* the part of C27 that holds: one invocation for each such response and
\* no other, with the cumulative list and the nickname, in the handler of
\* the 'end' event, after clientTlsSocket.write was called with every chunk
\* the upstream sent; what the client got of them is a prefix of them
CallbackAfterEveryWrite ==
  [][/\ \A j \in DOMAIN conn.forwards :
          CaptureEnded(j) =>
            IF HasRecords(conn'.forwards[j].response)
              THEN /\ InvokedOnce
                   /\ conn.forwards[j].captured = conn.forwards[j].sent
                   /\ IsPrefixOfSeq(DeliveredFrom(j), conn.forwards[j].sent)
              ELSE articlesFound' = articlesFound
     /\ articlesFound' # articlesFound =>
          \E j \in DOMAIN conn.forwards : CaptureEnded(j)]_vars

\* onArticlesFound was invoked for a batch whose records were all captured
\* by an earlier response of the connection
CallbackOnKnownRecords ==
  /\ Len(articlesFound) = 2
  /\ articlesFound[1].articles = articlesFound[2].articles
  /\ \A j \in DOMAIN conn.forwards : conn.forwards[j].phase = "ended"

\* the intercepted connection with the one step the runtime owes: the
\* outcome of a pending tls.connect arrives. Whether an upstream that is
\* connected sends, ends or fails is up to the upstream.
InterceptLiveSpec == InterceptSpec /\ WF_vars(ForwardConnected)

\* the client socket is ended and no upstream socket of the connection is
\* connecting or open
BothSidesClosed ==
  /\ conn.tlsEnded
  /\ \A j \in DOMAIN conn.forwards :
       conn.forwards[j].phase \in {"ended", "failed"}

\* C28: after an error on the client side or on an upstream side of a
\* connection, the client socket and every upstream socket opened for the
\* connection are eventually closed.
C28_ErrorClosesBothSides == (conn.errors # <<>>) ~> BothSidesClosed

\* the part of C28 that holds: every error handler ends the client socket,
\* and the upstream socket that failed is closed
ErrorEndsClient ==
  conn.errors # <<>> =>
    /\ conn.tlsEnded
    /\ \A j \in DOMAIN conn.forwards :
         conn.forwards[j].phase = "failed" =>
           \E k \in 1..Len(conn.errors) : conn.errors[k].socket = "upstream"

\* the i-th decrypted chunk of the client was written to an upstream socket
WrittenUpstream(i) ==
  \E k \in DOMAIN conn.forwards :
    \E n \in 1..Len(conn.forwards[k].got) : conn.forwards[k].got[n] = i

\* C29: on an intercepted connection with several decrypted chunks, no
\* chunk is written upstream before a chunk the client sent earlier, each
\* upstream gets its chunks in the order the client sent them, and what the
\* client got from an upstream is in the order that upstream sent it, for
\* every interleaving of the connect, data and end events of the upstreams.
C29_RelayKeepsOrder ==
  conn.errors = <<>> =>
    /\ \A j \in DOMAIN conn.forwards :
         WrittenUpstream(j) => \A i \in 1..(j - 1) : WrittenUpstream(i)
    /\ \A j \in DOMAIN conn.forwards :
         /\ \A n \in 1..(Len(conn.forwards[j].got) - 1) :
              conn.forwards[j].got[n] < conn.forwards[j].got[n + 1]
         /\ IsPrefixOfSeq(DeliveredFrom(j), conn.forwards[j].sent)

\* the part of C29 that holds: the order is kept on each upstream socket
\* taken alone, in both directions
OrderKeptPerUpstream ==
  \A j \in DOMAIN conn.forwards :
    /\ \A n \in 1..(Len(conn.forwards[j].got) - 1) :
         conn.forwards[j].got[n] < conn.forwards[j].got[n + 1]
    /\ IsPrefixOfSeq(DeliveredFrom(j), conn.forwards[j].sent)

C31_NicknameSetOnce ==
  [][/\ (ret'.responses # ret.responses) =>
          capturedNickname' =
            IF /\ capturedNickname = ""
               /\ arg'.kind = "json" /\ arg'.ret = 0 /\ arg'.nickname # ""
              THEN arg'.nickname ELSE capturedNickname
     /\ (capturedNickname # "" /\ capturedNickname' # capturedNickname) =>
          /\ capturedNickname' = ""
          /\ capturedArticles' = <<>>
          /\ ret' = ret /\ arg' = arg]_vars

\* a response with ret 0 and another nickname came after the nickname was
\* captured
C31_Witness ==
  /\ ret.responses >= 2
  /\ arg.kind = "json" /\ arg.ret = 0 /\ arg.nickname = "n2"
  /\ capturedNickname = "n1"

\* C32: an accepted CONNECT connection that is intercepted is eventually
\* closed, client socket and upstream sockets, also when the client never
\* completes its TLS handshake (it sends no decrypted chunk), or an upstream
\* that is connected never sends an end.
C32_StalledPeerClosed == <>BothSidesClosed

\* the part of C32 that holds: sockets are closed by the events of the
\* peers only. The client socket is ended only in a step in which an
\* upstream ends or a socket fails, and an upstream socket is closed only
\* by its own end or failure: no step of the proxy closes a socket of a
\* peer that is silent.
ClosedByPeerEventsOnly ==
  [][/\ (~conn.tlsEnded /\ conn'.tlsEnded) =>
          \/ Len(conn'.errors) > Len(conn.errors)
          \/ \E j \in DOMAIN conn.forwards :
               conn.forwards[j].phase = "open"
                 /\ conn'.forwards[j].phase = "ended"
     /\ \A j \in DOMAIN conn.forwards :
          (conn.forwards[j].phase \in {"connecting", "open"}
             /\ conn'.forwards[j].phase \in {"ended", "failed"}) =>
            \A k \in DOMAIN conn.forwards :
              k # j => conn'.forwards[k] = conn.forwards[k]]_vars

\* C33: when an auto-stop returns, after whatever sequence of auto-start
\* and auto-stop invocations (two auto-starts in a row included), the
\* ProxyEnable flag is what it was before the first auto-start, and if the
\* proxy was enabled then, ProxyServer is the address it had.
C33_StopRestoresOriginal ==
  [][(handler.name = "stop" /\ handler'.name = "idle") =>
       /\ osProxy'.enabled = arg.before.enabled
       /\ arg.before.enabled => osProxy'.server = arg.before.server]_vars

\* the part of C33 that holds: an auto-stop that has settings to restore
\* and whose command succeeds leaves the system proxy as the remembered
\* settings say: enabled with the remembered server, or disabled
StopRestoresRemembered ==
  [][(/\ handler.name = "stop" /\ handler.pc = "restore"
      /\ originalProxySettings # NoSettingsKept
      /\ osProxy' # osProxy) =>
       IF originalProxySettings.enabled /\ originalProxySettings.server # ""
         THEN osProxy'.enabled /\
              osProxy'.server \in {originalProxySettings.server, osProxy.server}
         ELSE ~osProxy'.enabled /\ osProxy'.server = osProxy.server]_vars

\* a startProxyServer call succeeded and its server is the current one
CurrentInstance ==
  /\ server # NULL
  /\ starts[server].status = "resolved"
  /\ starts[server].phase = "bound"

\* in this step the 'close' event of server i ran the close callbacks of
\* the stopProxyServer calls made on it, or its bind failed
LateEventOf(i) ==
  \/ starts[i].closeDue /\ ~starts'[i].closeDue /\ starts[i].cbs # {}
  \/ starts[i].phase = "binding" /\ starts'[i].phase = "unbound"

\* C34: once a later startProxyServer call has succeeded, the late close
\* completion or the late error of an earlier server leaves `server` (and
\* with it isProxyRunning()) and the closing flag as they are.
C34_OldServerEventsIgnored ==
  [][\A i \in DOMAIN starts :
       (CurrentInstance /\ i # server /\ LateEventOf(i)) =>
         /\ server' = server
         /\ isClosing' = isClosing]_vars

\* the part of C34 that holds: such an event leaves the listener of the
\* current instance bound
OldServerEventsKeepListener ==
  [][\A i \in DOMAIN starts :
       (CurrentInstance /\ i # server /\ LateEventOf(i)) =>
         /\ starts'[server] = starts[server]
         /\ Bound' = Bound]_vars

\* ------------------------------------------------------------------------
\* Two invocations of 'auto-start-cookie-monitoring' at a time
\* ------------------------------------------------------------------------
\* the positions at which an invocation waits for a child process, so that
\* the other one may run: the awaits of isCACertificateInstalled (main.ts
\* line 759), getProxyStatus (line 775) and enableSystemProxy (line 788).
\* The assignment of line 775 and the call of startProxyServer run in one
\* turn of the event loop, as do a rejection and the catch block.
AwaitPoints == {"step1", "step2", "step4"}

NoInvocation == Idle(0, "none")

\* the renderer invokes the handler a second time while the first
\* invocation waits
secondInvoke ==
  /\ handler.name = "start" /\ handler.pc \in AwaitPoints
  /\ handler.runs = 1
  /\ suspended = NoInvocation
  /\ suspended' = handler
  /\ handler' = [name |-> "start", pc |-> "step0", calls |-> <<>>,
                 before |-> osProxy, captured |-> FALSE,
                 remembered |-> originalProxySettings # NoSettingsKept,
                 result |-> "none", runs |-> 2]
  /\ UNCHANGED <<lifeVars, osProxy, originalProxySettings>>

\* the invocation that waits is resumed: the one that ran has returned, or
\* waits in its turn
resumeOther ==
  /\ suspended.name = "start"
  /\ \/ handler.name = "idle"
     \/ handler.name = "start" /\ handler.pc \in AwaitPoints
  /\ handler' = suspended
  /\ suspended' = handler
  /\ UNCHANGED <<lifeVars, osProxy, originalProxySettings>>

concurrentRest == <<arg, ret, conn, capVars, caFiles, http, leafMints>>

FirstInvoke == handler.runs = 0 /\ AutoStartInvoke
SecondInvoke == secondInvoke /\ UNCHANGED concurrentRest
ResumeOther == resumeOther /\ UNCHANGED concurrentRest

ConcurrentNext ==
  \/ FirstInvoke
  \/ SecondInvoke
  \/ ResumeOther
  \/ AutoStartStep0
  \/ AutoStartStep1
  \/ AutoStartStep2
  \/ AutoStartStep3
  \/ AutoStartStep4
  \/ AutoStartCatch

ConcurrentSpec == MonitorInit /\ [][ConcurrentNext]_vars

\* both invocations have returned, and the second was made while the first
\* was waiting
BothReturned ==
  /\ handler.name = "idle"
  /\ suspended.name = "idle"
  /\ suspended.runs > 0

\* what getProxyStatus can return for the registry values `os`
StatusesOf(os) ==
  {[enabled |-> os.enabled,
    server |-> IF os.enabled THEN Trim(os.server) ELSE ""],
   [enabled |-> os.enabled, server |-> ""],
   [enabled |-> FALSE, server |-> ""]}

\* C35: once two concurrent auto-start invocations have both returned, the
\* system proxy points at 127.0.0.1:8899 exactly when the proxy server is
\* running, and the original settings remembered, if any, are those the
\* system proxy had before either invocation.
C35_ConcurrentStartsConsistent ==
  BothReturned =>
    /\ PointsAtLocal <=> isProxyRunning
    /\ originalProxySettings # NoSettingsKept =>
         originalProxySettings \in StatusesOf(arg.before)

\* the part of C35 that holds: the test of startProxyServer (lines 54-58)
\* keeps the two invocations from running two servers
ConcurrentStartsOneListener == Cardinality(Bound) <= 1

\* ---------------------------------------------------------------------
\* two invocations of 'auto-stop-cookie-monitoring' at once
\* (BatchAnalyzer.tsx lines 437-452: handleCookieFound invokes the handler
\* for every 'auto-cookie-found' event and waits for nothing before it)

\* an invocation that waits in the await of line 849 or 852: it has made
\* the test of line 845 and issued the command that restores `settings`
Waiting(h, settings) ==
  [name |-> h.name, pc |-> h.pc, calls |-> h.calls, before |-> h.before,
   captured |-> h.captured, remembered |-> h.remembered,
   result |-> h.result, runs |-> h.runs, settings |-> settings]

IsWaiting(h) == "settings" \in DOMAIN h

\* the renderer invokes the handler again while the first invocation waits
\* for its command: the settings are still remembered (line 858 has not
\* run), so the second invocation passes the test of line 845 as well
secondStop ==
  /\ handler.name = "stop" /\ handler.pc = "restore"
  /\ ~IsWaiting(handler)
  /\ originalProxySettings # NoSettingsKept
  /\ suspended.name = "idle"
  /\ handler.runs < MaxRuns
  /\ suspended' = Waiting(handler, originalProxySettings)
  /\ handler' =
       Waiting([name |-> "stop", pc |-> "restore", calls |-> <<>>,
                before |-> osProxy, captured |-> FALSE,
                remembered |-> TRUE, result |-> "none",
                runs |-> handler.runs + 1], originalProxySettings)
  /\ UNCHANGED <<lifeVars, osProxy, originalProxySettings>>

\* lines 847-858 of an invocation that waited: its command has run, and
\* originalProxySettings is set to null
restoreIssued(outcome) ==
  /\ handler.name = "stop" /\ handler.pc = "restore"
  /\ IsWaiting(handler)
  /\ outcome \in restoreOutcomes(handler.settings)
  /\ osProxy' = restoreSettings(handler.settings, outcome).os
  /\ originalProxySettings' = NoSettingsKept
  /\ handler' = Called(Step("stop"), "restore")
  /\ UNCHANGED lifeVars

\* the other invocation continues: the one that ran has returned, or waits
\* for its command
resumeStop ==
  /\ suspended.name = "stop"
  /\ \/ handler.name = "idle"
     \/ handler.name = "stop" /\ handler.pc = "restore" /\ IsWaiting(handler)
  /\ handler' = suspended
  /\ suspended' = handler
  /\ UNCHANGED <<lifeVars, osProxy, originalProxySettings>>

NoneWaiting == suspended.name = "idle"

StartWhenIdle == NoneWaiting /\ AutoStartInvoke
FirstStop == NoneWaiting /\ AutoStopInvoke
SecondStop == secondStop /\ UNCHANGED concurrentRest
ResumeStop == resumeStop /\ UNCHANGED concurrentRest
RestoreTested == ~IsWaiting(handler) /\ AutoStopRestore
RestoreIssued ==
  \E o \in ExecOutcomes : restoreIssued(o) /\ UNCHANGED otherVars

DuplicateNext ==
  \/ StartWhenIdle
  \/ AutoStartStep0
  \/ AutoStartStep1
  \/ AutoStartStep2
  \/ AutoStartStep3
  \/ AutoStartStep4
  \/ AutoStartCatch
  \/ FirstStop
  \/ SecondStop
  \/ ResumeStop
  \/ RestoreTested
  \/ RestoreIssued
  \/ AutoStopStop
  \/ AutoStopReturn

DuplicateSpec == MonitorInit /\ [][DuplicateNext]_vars

\* h is the second of two auto-stop invocations, g the first
IsSecondStop(h, g) ==
  /\ h.name = "stop" /\ IsWaiting(h)
  /\ g.runs = h.runs - 1

\* C36: a second invocation of auto-stop-cookie-monitoring, with no
\* auto-start since the first, writes nothing to the system proxy and does
\* not call stopProxyServer.
C36_SecondStopDoesNothing ==
  /\ IsSecondStop(handler, suspended) => handler.calls = <<>>
  /\ IsSecondStop(suspended, handler) => suspended.calls = <<>>

\* the part of C36 that holds: an invocation that returns leaves nothing
\* remembered and no server, and one made in that state writes nothing
\* and stops nothing
StopAfterReturnedStopDoesNothing ==
  [][/\ (handler.name = "stop" /\ handler'.name = "idle")
          => /\ originalProxySettings' = NoSettingsKept
             /\ ~isProxyRunning'
             /\ handler'.result = "success"
     /\ (/\ handler.name = "stop"
         /\ originalProxySettings = NoSettingsKept
         /\ ~isProxyRunning)
          => /\ osProxy' = osProxy
             /\ Len(handler'.calls) <= Len(handler.calls)
             /\ UNCHANGED <<server, stops>>]_vars

\* ---------------------------------------------------------------------
\* a rejected startProxyServer call

\* the call that was just made was rejected at line 57
RejectedAsRunning(ss) ==
  /\ ss # <<>>
  /\ ss[Len(ss)] = Rejected("already running")

\* C37: a startProxyServer call rejected because an instance is running
\* leaves the running listener (and with it the handlers of lines 68-76,
\* which hold the callbacks of the call that created it), the CA
\* material, the closing flag and the certificate cache as they were.
C37_RejectedStartChangesNothing ==
  [][(Len(starts') = Len(starts) + 1 /\ RejectedAsRunning(starts'))
       => /\ server' = server
          /\ \A i \in DOMAIN starts : starts'[i] = starts[i]
          /\ caCert' = caCert
          /\ isClosing' = isClosing
          /\ certCache' = certCache
          /\ UNCHANGED <<stops, conn, capVars>>]_vars

\* a call was rejected while the running instance had a certificate cached
\* and a stop in progress
C37_Witness ==
  /\ RejectedAsRunning(starts)
  /\ isProxyRunning
  /\ isClosing
  /\ caCert # ""
  /\ certCache # {}

\* ---------------------------------------------------------------------
\* the captured records across runs of the proxy

\* lines 31-33
getCapturedArticles ==
  [articles |-> capturedArticles, nickname |-> capturedNickname]

\* lines 54-92 and 574-624: what startProxyServer and stopProxyServer leave
\* in capturedArticles and capturedNickname (neither assigns them)
recordsCleared == [articles |-> <<>>, nickname |-> ""]
recordsAfterCall == getCapturedArticles

\* list responses of two accounts
SessionResponses ==
  {Response("json", 0, "n1", TRUE, <<Msg("u1", <<>>)>>),
   Response("json", 0, "n2", TRUE, <<Msg("u2", <<>>), Msg("u3", <<>>)>>)}

\* the number of responses captured in a session
MaxCaptures == 2

\* ret keeps the number of responses handled and the server through which
\* the last one came
SessionInit ==
  /\ LifeInit
  /\ arg = NoArg
  /\ ret = [called |-> FALSE, responses |-> 0, run |-> 0]
  /\ conn = NoConn
  /\ CapInit
  /\ AppInit

SessionStart ==
  /\ \E caOk \in BOOLEAN : startProxyServer(caOk)
  /\ capturedArticles' = recordsAfterCall.articles
  /\ capturedNickname' = recordsAfterCall.nickname
  /\ UNCHANGED <<articlesFound, arg, ret, conn, appVars>>

SessionStop ==
  /\ \E cancelled \in BOOLEAN : stopProxyServer(cancelled)
  /\ capturedArticles' = recordsAfterCall.articles
  /\ capturedNickname' = recordsAfterCall.nickname
  /\ leafMints' = [leafMints EXCEPT !.stopCalled = TRUE]
  /\ UNCHANGED <<articlesFound, arg, ret, conn, mainVars, caFiles, http>>

\* a list response of a connection of the listening server reaches
\* parseAndStoreArticles
SessionCapture ==
  /\ ret.responses < MaxCaptures
  /\ \E i \in Bound, response \in SessionResponses :
       /\ parseAndStoreArticles(response)
       /\ arg' = response
       /\ ret' = [called |-> TRUE, responses |-> ret.responses + 1,
                  run |-> i]
  /\ UNCHANGED <<lifeVars, conn, appVars>>

SessionClear ==
  /\ capturedArticles # <<>> \/ capturedNickname # ""
  /\ clearCapturedArticles
  /\ UNCHANGED <<lifeVars, conn, arg, ret, appVars>>

SessionNext ==
  \/ SessionStart
  \/ SessionStop
  \/ Listening
  \/ ServerError
  \/ ServerClose
  \/ StopTimeout
  \/ Accept
  \/ SocketClose
  \/ SessionCapture
  \/ SessionClear

SessionSpec == SessionInit /\ [][SessionNext]_vars

\* C38: a call of startProxyServer or stopProxyServer, and the events of
\* the server that complete it, leave what getCapturedArticles returns
\* unchanged: the records of one run are still returned after the proxy
\* was stopped and started again.
C38_RecordsSurviveRestart ==
  [][(starts' # starts \/ stops' # stops \/ server' # server)
       => getCapturedArticles' = getCapturedArticles]_vars

\* the records that came through the first server are returned while the
\* second one listens
C38_Witness ==
  /\ ret.called /\ ret.run = 1
  /\ 2 \in Bound
  /\ stops # <<>>
  /\ getCapturedArticles.articles # <<>>
  /\ getCapturedArticles.nickname = "n1"

\* ---------------------------------------------------------------------
\* how often a decrypted chunk is written upstream

\* the writes of the i-th decrypted chunk of the client: the upstream
\* socket and the position in what that socket was given
WritesOf(i) ==
  UNION {{<<k, n>> : n \in {m \in DOMAIN conn.forwards[k].got :
                                conn.forwards[k].got[m] = i}} :
         k \in DOMAIN conn.forwards}

\* C39: on an intercepted connection every decrypted chunk of the client
\* is written to one upstream connection only, and once, whatever the
\* number of chunks and the order in which the upstreams connect and end.
C39_ChunkWrittenOnce ==
  \A i \in DOMAIN conn.forwards : Cardinality(WritesOf(i)) <= 1

\* the part of C39 that holds: no upstream socket is given the same chunk
\* twice, and the first chunk of a connection is written once
ChunkWrittenOncePerUpstream ==
  /\ \A i, k \in DOMAIN conn.forwards :
       Cardinality({w \in WritesOf(i) : w[1] = k}) <= 1
  /\ conn.forwards # <<>> => Cardinality(WritesOf(1)) <= 1
====
